---------------------------- MODULE Spec2Model ----------------------------
(***************************************************************************)
(* A model of the proxy acquisition and validation pipeline of proxies-ng: *)
(* the two-phase AWS echo check, the bounded gatherer, the fetch           *)
(* orchestrator, the bulk insert of the proxy repository and the periodic  *)
(* health check.  Every part has its own variables and its own             *)
(* specification; a specification leaves the other parts' variables at     *)
(* their initial values.                                                   *)
(***************************************************************************)
EXTENDS Integers, Sequences, FiniteSets, TLC

(***************************************************************************)
(* Bounds of the model.                                                    *)
(***************************************************************************)
\* response times (milliseconds) range over 0..MaxLatency
MaxLatency == 2

(***************************************************************************)
(* Values shared by the parts.                                             *)
(***************************************************************************)
\* Python's None, for an optional tuple or record: the empty tuple; a value v that
\* is present is the one-element tuple <<v>>
None == <<>>

Some(v) == <<v>>

\* app/models/proxy.py: Protocol
Protocol == {"HTTP", "HTTPS", "SOCKS4", "SOCKS5"}

\* IP addresses a candidate may advertise; text tokens written exactly like them
Addresses == {"1.2.3.4", "8.8.8.8"}

\* the text tokens that are IP literals
IPLiterals == Addresses \cup {"127.0.0.1"}

HTTP_STATUS_OK == 200

\* status codes a response may carry
Statuses == {HTTP_STATUS_OK, 204, 500}

\* Response bodies, as sequences of tokens: an IP literal, a carriage return,
\* a line feed, or text that is no IP literal.
Bodies ==
    { <<>>, <<"1.2.3.4">>, <<"8.8.8.8">>, <<"1.2.3.4", "\n">>, <<"8.8.8.8", "\r", "\n">>,
      <<"\n", "1.2.3.4">>, <<"junk">>, <<"1.2.3.4", "\n", "8.8.8.8">>, <<"1.2.3.4", " ">> }

\* network_request.py: ProxyHttpResult(time, status, text); the text is kept
\* only for 2xx statuses (try_http_request_with_proxy, lines 106-108)
ProxyHttpResult ==
    { r \in [time : 0..MaxLatency, status : Statuses, text : Bodies] :
        r.status >= 300 => r.text = <<>> }

\* what try_http_request_with_proxy hands back: a result, or None on any failure
Responses == {Some(r) : r \in ProxyHttpResult} \cup {None}

(***************************************************************************)
(* tasks/utils/aws_check.py                                                *)
(***************************************************************************)
IsCRLF(tok) == tok \in {"\r", "\n"}

\* str.strip("\r\n"): drop the leading and the trailing CR/LF characters
RECURSIVE LStrip(_)
LStrip(s) == IF s # <<>> /\ IsCRLF(Head(s)) THEN LStrip(Tail(s)) ELSE s

RECURSIVE RStrip(_)
RStrip(s) ==
    IF s # <<>> /\ IsCRLF(s[Len(s)]) THEN RStrip(SubSeq(s, 1, Len(s) - 1)) ELSE s

Strip(s) == RStrip(LStrip(s))

\* ipaddress.ip_address(text): the address, or "ValueError" where it raises
ip_address(text) ==
    IF Len(text) = 1 /\ text[1] \in IPLiterals THEN text[1] ELSE "ValueError"

validate_aws_response_any_status(address, response) ==
    LET remote_address == ip_address(Strip(response.text))
    IN  IF remote_address = "ValueError" THEN FALSE ELSE address = remote_address

\* validate_aws_response, lines 51-57
validate_aws_response(address, response) ==
    IF response.status # HTTP_STATUS_OK
    THEN FALSE
    ELSE LET remote_address == ip_address(Strip(response.text))
         IN  IF remote_address = "ValueError" THEN FALSE ELSE address = remote_address

\* one echo attempt: (success, response time)
try_aws_http_request_with_proxy(address, response) ==
    IF response = None \/ ~validate_aws_response(address, response[1])
    THEN <<FALSE, 0>>
    ELSE <<TRUE, response[1].time>>

VARIABLES
    aws_pc,        \* position in check_proxy_with_aws
    aws_address,   \* the candidate's advertised address
    aws_first,     \* the response of the first request (None before it)
    aws_second,    \* the response of the second request (None before it)
    aws_requests,  \* echo requests issued so far
    aws_sleeps,    \* stability delays slept so far
    aws_log,       \* the order of the requests and the sleep
    aws_result     \* the returned (success, latency), None before the return

awsVars ==
    <<aws_pc, aws_address, aws_first, aws_second, aws_requests, aws_sleeps, aws_log,
      aws_result>>

AwsInit ==
    /\ aws_pc = "first"
    /\ aws_address \in Addresses
    /\ aws_first = None
    /\ aws_second = None
    /\ aws_requests = 0
    /\ aws_sleeps = 0
    /\ aws_log = <<>>
    /\ aws_result = None

AwsFirstRequestNoReturn ==
    /\ aws_pc = "first"
    /\ \E response \in Responses :
        /\ aws_first' = response
        /\ aws_requests' = aws_requests + 1
        /\ aws_log' = Append(aws_log, "request")
        /\ aws_pc' = "sleep"
        /\ aws_result' = aws_result
    /\ UNCHANGED <<aws_address, aws_second, aws_sleeps>>

\* lines 116-118: the first request; a failure returns (False, 0) at once
AwsFirstRequest ==
    /\ aws_pc = "first"
    /\ \E response \in Responses :
        LET r == try_aws_http_request_with_proxy(aws_address, response)
        IN  /\ aws_first' = response
            /\ aws_requests' = aws_requests + 1
            /\ aws_log' = Append(aws_log, "request")
            /\ IF ~r[1]
               THEN aws_pc' = "done" /\ aws_result' = Some(<<FALSE, 0>>)
               ELSE aws_pc' = "sleep" /\ aws_result' = aws_result
    /\ UNCHANGED <<aws_address, aws_second, aws_sleeps>>

\* line 120: the delay between the two requests
AwsSleep ==
    /\ aws_pc = "sleep"
    /\ aws_sleeps' = aws_sleeps + 1
    /\ aws_log' = Append(aws_log, "sleep")
    /\ aws_pc' = "second"
    /\ UNCHANGED <<aws_address, aws_first, aws_second, aws_requests, aws_result>>

AwsSecondRequestFirstLatency ==
    /\ aws_pc = "second"
    /\ \E response \in Responses :
        LET r == try_aws_http_request_with_proxy(aws_address, response)
        IN  /\ aws_second' = response
            /\ aws_requests' = aws_requests + 1
            /\ aws_log' = Append(aws_log, "request")
            /\ aws_pc' = "done"
            /\ aws_result' =
                 IF ~r[1] THEN Some(<<FALSE, 0>>) ELSE Some(<<TRUE, aws_first[1].time>>)
    /\ UNCHANGED <<aws_address, aws_first, aws_sleeps>>

\* lines 122-126: the second request decides; the latency is its response time
AwsSecondRequest ==
    /\ aws_pc = "second"
    /\ \E response \in Responses :
        LET r == try_aws_http_request_with_proxy(aws_address, response)
        IN  /\ aws_second' = response
            /\ aws_requests' = aws_requests + 1
            /\ aws_log' = Append(aws_log, "request")
            /\ aws_pc' = "done"
            /\ aws_result' = IF ~r[1] THEN Some(<<FALSE, 0>>) ELSE Some(<<TRUE, r[2]>>)
    /\ UNCHANGED <<aws_address, aws_first, aws_sleeps>>

\* the part is not in use
AwsIdle ==
    /\ aws_pc = "idle"
    /\ aws_address = "1.2.3.4"
    /\ aws_first = None
    /\ aws_second = None
    /\ aws_requests = 0
    /\ aws_sleeps = 0
    /\ aws_log = <<>>
    /\ aws_result = None

(***************************************************************************)
(* tasks/utils/gather.py                                                   *)
(***************************************************************************)
\* tasks handed to one cgather call: 0..MaxTasks of them
MaxTasks == 4
\* the limit of one cgather call ranges over 1..MaxLimit
MaxLimit == 2
\* the values a task may return
TaskValues == {0, 1}

\* how a task ends: it returns a value, returns None, or raises
Outcomes ==
    {[kind |-> "value", val |-> v] : v \in TaskValues}
        \cup {[kind |-> "none", val |-> 0], [kind |-> "raise", val |-> 0]}

VARIABLES
    g_pc,        \* "gather" while asyncio.gather runs, "returned" after the return
    g_n,         \* the number of tasks of the call
    g_limit,     \* the limit of the call
    g_semaphore, \* the value of the semaphore
    g_state,     \* per task: "waiting" for the semaphore, "running", "suspended"
                 \* (started, at an await of its own), "finished"
    g_outcome,   \* per task: how it ended (None before)
    g_return     \* the returned list (None before the return)

gVars ==
    <<g_pc, g_n, g_limit, g_semaphore, g_state, g_outcome, g_return>>

GTasks == 1..g_n

\* the tasks that have started and not yet finished
GRunning == {t \in GTasks : g_state[t] \in {"running", "suspended"}}

\* lines 24, 30-33: the semaphore is created with the limit, every task is
\* wrapped in sem_task and handed to asyncio.gather
GatherInit ==
    /\ g_pc = "gather"
    /\ g_n \in 0..MaxTasks
    /\ g_limit \in 1..MaxLimit
    /\ g_semaphore = g_limit
    /\ g_state = [t \in 1..g_n |-> "waiting"]
    /\ g_outcome = [t \in 1..g_n |-> None]
    /\ g_return = None

sem_task_enter_unbounded(t) ==
    /\ g_pc = "gather"
    /\ g_state[t] = "waiting"
    /\ g_semaphore' = g_semaphore - 1
    /\ g_state' = [g_state EXCEPT ![t] = "running"]
    /\ UNCHANGED <<g_pc, g_n, g_limit, g_outcome, g_return>>

\* lines 27-28: "async with semaphore" takes a permit when one is free, and
\* "await task" starts the task
sem_task_enter(t) ==
    /\ g_pc = "gather"
    /\ g_state[t] = "waiting"
    /\ g_semaphore > 0
    /\ g_semaphore' = g_semaphore - 1
    /\ g_state' = [g_state EXCEPT ![t] = "running"]
    /\ UNCHANGED <<g_pc, g_n, g_limit, g_outcome, g_return>>

\* the task reaches an await of its own and the event loop runs other tasks
task_suspend(t) ==
    /\ g_pc = "gather"
    /\ g_state[t] = "running"
    /\ g_state' = [g_state EXCEPT ![t] = "suspended"]
    /\ UNCHANGED <<g_pc, g_n, g_limit, g_semaphore, g_outcome, g_return>>

\* what the task awaited is there and the event loop resumes it
task_resume(t) ==
    /\ g_pc = "gather"
    /\ g_state[t] = "suspended"
    /\ g_state' = [g_state EXCEPT ![t] = "running"]
    /\ UNCHANGED <<g_pc, g_n, g_limit, g_semaphore, g_outcome, g_return>>

sem_task_exit_keeps_permit_on_raise(t) ==
    /\ g_pc = "gather"
    /\ g_state[t] = "running"
    /\ \E o \in Outcomes :
           /\ g_outcome' = [g_outcome EXCEPT ![t] = Some(o)]
           /\ g_semaphore' = IF o.kind = "raise" THEN g_semaphore ELSE g_semaphore + 1
    /\ g_state' = [g_state EXCEPT ![t] = "finished"]
    /\ UNCHANGED <<g_pc, g_n, g_limit, g_return>>

\* line 28 and the exit of "async with": the task returns or raises, and the
\* permit is released on either way out
sem_task_exit(t) ==
    /\ g_pc = "gather"
    /\ g_state[t] = "running"
    /\ \E o \in Outcomes : g_outcome' = [g_outcome EXCEPT ![t] = Some(o)]
    /\ g_state' = [g_state EXCEPT ![t] = "finished"]
    /\ g_semaphore' = g_semaphore + 1
    /\ UNCHANGED <<g_pc, g_n, g_limit, g_return>>

\* line 30-33: the results of asyncio.gather(..., return_exceptions=True), in
\* the order of the tasks
GatherResults == [t \in 1..g_n |-> g_outcome[t][1]]

FilterExceptionsOnly(results) == SelectSeq(results, LAMBDA o : o.kind # "raise")

\* line 36: keep what is not None and no exception
FilterResults(results) == SelectSeq(results, LAMBDA o : o.kind = "value")

\* lines 30-36: asyncio.gather is over when every task is, and cgather returns
cgather_return ==
    /\ g_pc = "gather"
    /\ \A t \in GTasks : g_state[t] = "finished"
    /\ g_return' = Some(FilterResults(GatherResults))
    /\ g_pc' = "returned"
    /\ UNCHANGED <<g_n, g_limit, g_semaphore, g_state, g_outcome>>

GatherIdle ==
    /\ g_pc = "idle"
    /\ g_n = 0
    /\ g_limit = 1
    /\ g_semaphore = 1
    /\ g_state = <<>>
    /\ g_outcome = <<>>
    /\ g_return = None

(***************************************************************************)
(* tasks/fetch_proxies.py                                                  *)
(***************************************************************************)
\* the numbers of configured sources of a pass
SourceCounts == {0, 1, 2}
\* candidates the lists of one pass parse to, all sources together: at most MaxPool
MaxPool == 3
\* chunk_size of fetch_proxies (500 in the source, line 218), scaled down
ChunkSize == 2

\* Candidate addresses.  A candidate is the tuple (address, port, protocol);
\* the port and the protocol are carried along unchanged and left out.
FetchAddrs == {"8.8.8.8", "1.2.3.4", "127.0.0.1"}

\* IPv4Address.is_global
is_global(ip) == ip # "127.0.0.1"

\* core/geoip.py GeoIP.get_geolocation: the location, or None when the
\* database has no city, region or country for the address
get_geolocation(ip) ==
    IF ip = "8.8.8.8"
    THEN Some([city |-> "Mountain View", region |-> "California", country |-> "US"])
    ELSE None

\* the lists of at most n candidates
RECURSIVE CandidateLists(_)
CandidateLists(n) ==
    IF n = 0
    THEN {<<>>}
    ELSE LET shorter == CandidateLists(n - 1)
         IN  shorter \cup {Append(l, a) : l \in {x \in shorter : Len(x) = n - 1}, a \in FetchAddrs}

\* how download_proxy_list ends: a list of candidates, None, or an exception
DownloadOutcomes ==
    {[kind |-> "list", list |-> l] : l \in CandidateLists(MaxPool)}
        \cup {[kind |-> "none", list |-> <<>>], [kind |-> "raise", list |-> <<>>]}

VARIABLES
    f_pc,       \* position in fetch_proxies
    f_nsrc,     \* the number of configured sources
    f_typed,    \* per source: uri_predefined_type is set
    f_shealth,  \* per source: its stored health record
    f_supdates, \* per source: updates of its health persisted in this pass
    f_dl,       \* per source: "none", or its download "created", "inflight", "done"
    f_dlres,    \* per source: how its download ended (None before)
    f_pool,     \* unchecked_proxies
    f_i,        \* the loop variable i: the offset of the current chunk
    f_chk,      \* per candidate of the pool: "idle", "inflight", "passed", "failed", "raised"
    f_insert,   \* per chunk: "none", or its bulk insert "running", "done", "skipped"
    f_batches   \* the lists handed to create_bulk, in order

fVars ==
    <<f_pc, f_nsrc, f_typed, f_shealth, f_supdates, f_dl, f_dlres, f_pool, f_i, f_chk,
      f_insert, f_batches>>

FSources == 1..f_nsrc

\* the number of the chunk that candidate j of the pool falls in, from 0
ChunkOf(j) == (j - 1) \div ChunkSize

\* the candidates of the chunk at offset i: unchecked_proxies[i : i + chunk_size]
ChunkIndexes(i) == {j \in 1..Len(f_pool) : i < j /\ j <= i + ChunkSize}

NumChunks == (Len(f_pool) + ChunkSize - 1) \div ChunkSize

FetchInit ==
    /\ f_pc = "load"
    /\ f_nsrc \in SourceCounts
    /\ f_typed \in [1..f_nsrc -> BOOLEAN]
    /\ f_shealth =
         [s \in 1..f_nsrc |->
            [total_conn_attemps |-> 0, failed_conn_attemps |-> 0, last_used |-> None]]
    /\ f_supdates = [s \in 1..f_nsrc |-> 0]
    /\ f_dl = [s \in 1..f_nsrc |-> "none"]
    /\ f_dlres = [s \in 1..f_nsrc |-> None]
    /\ f_pool = <<>>
    /\ f_i = 0
    /\ f_chk = <<>>
    /\ f_insert = <<>>
    /\ f_batches = <<>>

\* fetch_proxies lines 204-212 and fetch_all_proxy_lists lines 157-161: the
\* sources are loaded; without any the pass ends; a download task is created
\* for every source with a predefined type and all are handed to asyncio.gather
load_sources ==
    /\ f_pc = "load"
    /\ IF f_nsrc = 0
       THEN f_pc' = "done" /\ f_dl' = f_dl
       ELSE /\ f_pc' = "download"
            /\ f_dl' = [s \in FSources |-> IF f_typed[s] THEN "created" ELSE "none"]
    /\ UNCHANGED <<f_nsrc, f_typed, f_shealth, f_supdates, f_dlres, f_pool, f_i, f_chk,
                   f_insert, f_batches>>

\* line 161: asyncio.gather runs every download task; a task runs up to its
\* request (download_proxy_list line 96) whatever the other tasks do
download_start(s) ==
    /\ f_pc = "download"
    /\ f_dl[s] = "created"
    /\ f_dl' = [f_dl EXCEPT ![s] = "inflight"]
    /\ UNCHANGED <<f_pc, f_nsrc, f_typed, f_shealth, f_supdates, f_dlres, f_pool, f_i,
                   f_chk, f_insert, f_batches>>

RECURSIVE CombinedPoolAbortedByFailure(_)
CombinedPoolAbortedByFailure(n) ==
    IF n = 0
    THEN <<>>
    ELSE IF f_dl[n] = "done" /\ f_dlres[n][1].kind # "list"
    THEN <<>>
    ELSE CombinedPoolAbortedByFailure(n - 1) \o
            (IF f_dl[n] = "done" THEN f_dlres[n][1].list ELSE <<>>)

\* lines 164-167: the lists of the downloads that gave one, in the order of the
\* sources; None, an empty list and an exception are skipped
RECURSIVE CombinedPool(_)
CombinedPool(n) ==
    IF n = 0
    THEN <<>>
    ELSE CombinedPool(n - 1) \o
            (IF f_dl[n] = "done" /\ f_dlres[n][1].kind = "list" THEN f_dlres[n][1].list ELSE <<>>)

\* download_proxy_list ends: with a list, with None, or raising
download_finish(s) ==
    /\ f_pc = "download"
    /\ f_dl[s] = "inflight"
    /\ \E o \in DownloadOutcomes :
          /\ Len(CombinedPool(f_nsrc)) + Len(o.list) <= MaxPool
          /\ f_dlres' = [f_dlres EXCEPT ![s] = Some(o)]
    /\ f_dl' = [f_dl EXCEPT ![s] = "done"]
    /\ UNCHANGED <<f_pc, f_nsrc, f_typed, f_shealth, f_supdates, f_pool, f_i, f_chk,
                   f_insert, f_batches>>

\* fetch_all_proxy_lists lines 161-169 and fetch_proxies lines 212-219: the
\* gather is over when every download is; an empty pool ends the pass
fetch_all_proxy_lists_return ==
    /\ f_pc = "download"
    /\ \A s \in FSources : f_dl[s] \in {"none", "done"}
    /\ f_pool' = CombinedPool(f_nsrc)
    /\ f_pc' = IF f_pool' = <<>> THEN "done" ELSE "check"
    /\ f_i' = 0
    /\ f_chk' = [j \in 1..Len(f_pool') |-> "idle"]
    /\ f_insert' = [k \in 1..((Len(f_pool') + ChunkSize - 1) \div ChunkSize) |-> "none"]
    /\ UNCHANGED <<f_nsrc, f_typed, f_shealth, f_supdates, f_dl, f_dlres, f_batches>>

\* check_list_of_proxies lines 185-186: asyncio.gather runs check_proxy for
\* every candidate of the chunk
check_start(j) ==
    /\ f_pc = "check"
    /\ j \in ChunkIndexes(f_i)
    /\ f_chk[j] = "idle"
    /\ f_chk' = [f_chk EXCEPT ![j] = "inflight"]
    /\ UNCHANGED <<f_pc, f_nsrc, f_typed, f_shealth, f_supdates, f_dl, f_dlres, f_pool, f_i,
                   f_insert, f_batches>>

\* check_proxy lines 139-142: the two-phase check passed, failed, or raised
check_finish(j) ==
    /\ f_pc \in {"check", "insert"}
    /\ j \in 1..Len(f_pool)
    /\ f_chk[j] = "inflight"
    /\ \E r \in {"passed", "failed", "raised"} : f_chk' = [f_chk EXCEPT ![j] = r]
    /\ UNCHANGED <<f_pc, f_nsrc, f_typed, f_shealth, f_supdates, f_dl, f_dlres, f_pool, f_i,
                   f_insert, f_batches>>

RECURSIVE CheckedProxiesUnfiltered(_, _)
CheckedProxiesUnfiltered(i, n) ==
    IF n = 0
    THEN <<>>
    ELSE CheckedProxiesUnfiltered(i, n - 1) \o
            (IF i + n <= Len(f_pool) /\ f_chk[i + n] # "raised" THEN <<f_pool[i + n]>> ELSE <<>>)

\* check_list_of_proxies line 187: the checked candidates of the chunk at
\* offset i, in the order of the chunk
RECURSIVE CheckedProxies(_, _)
CheckedProxies(i, n) ==
    IF n = 0
    THEN <<>>
    ELSE CheckedProxies(i, n - 1) \o
            (IF i + n <= Len(f_pool) /\ f_chk[i + n] = "passed" THEN <<f_pool[i + n]>> ELSE <<>>)

\* fetch_proxies lines 225-244: the records of the checked candidates that are
\* global and have a location
ProxiesToInsert(checked) ==
    LET kept == SelectSeq(checked, LAMBDA ip : is_global(ip) /\ get_geolocation(ip) # None)
    IN  [n \in 1..Len(kept) |-> [address |-> kept[n], location |-> get_geolocation(kept[n])[1]]]

\* the loop of line 219 moves on: the next offset, or the end of the pass
NextChunk ==
    IF f_i + ChunkSize < Len(f_pool)
    THEN f_pc' = "check" /\ f_i' = f_i + ChunkSize
    ELSE f_pc' = "done" /\ f_i' = f_i

\* lines 221-246: the gather of the chunk is over; with no checked candidate the
\* loop continues, else the records are built and create_bulk is called
check_list_of_proxies_return ==
    /\ f_pc = "check"
    /\ \A j \in ChunkIndexes(f_i) : f_chk[j] \in {"passed", "failed", "raised"}
    /\ LET checked == CheckedProxies(f_i, ChunkSize)
       IN  IF checked = <<>>
           THEN /\ f_insert' = [f_insert EXCEPT ![ChunkOf(f_i + 1) + 1] = "skipped"]
                /\ f_batches' = f_batches
                /\ NextChunk
           ELSE /\ f_insert' = [f_insert EXCEPT ![ChunkOf(f_i + 1) + 1] = "running"]
                /\ f_batches' = Append(f_batches, ProxiesToInsert(checked))
                /\ f_pc' = "insert"
                /\ f_i' = f_i
    /\ UNCHANGED <<f_nsrc, f_typed, f_shealth, f_supdates, f_dl, f_dlres, f_pool, f_chk>>

create_bulk_not_awaited ==
    /\ f_pc = "insert"
    /\ f_insert[ChunkOf(f_i + 1) + 1] = "running"
    /\ NextChunk
    /\ UNCHANGED <<f_nsrc, f_typed, f_shealth, f_supdates, f_dl, f_dlres, f_pool, f_chk,
                   f_insert, f_batches>>

\* line 246: the awaited create_bulk returns, and the loop moves on
create_bulk_return ==
    /\ f_pc = "insert"
    /\ f_insert' = [f_insert EXCEPT ![ChunkOf(f_i + 1) + 1] = "done"]
    /\ NextChunk
    /\ UNCHANGED <<f_nsrc, f_typed, f_shealth, f_supdates, f_dl, f_dlres, f_pool, f_chk,
                   f_batches>>

FetchIdle ==
    /\ f_pc = "idle"
    /\ f_nsrc = 0
    /\ f_typed = <<>>
    /\ f_shealth = <<>>
    /\ f_supdates = <<>>
    /\ f_dl = <<>>
    /\ f_dlres = <<>>
    /\ f_pool = <<>>
    /\ f_i = 0
    /\ f_chk = <<>>
    /\ f_insert = <<>>
    /\ f_batches = <<>>

(***************************************************************************)
(* tasks/fetch_proxies.py, the checks of a pass counted: the candidates of a *)
(* chunk are interchangeable for the number of checks in flight, so this    *)
(* part keeps their numbers only, at the sizes the source sets.             *)
(***************************************************************************)
\* fetch_proxies line 218
chunk_size == 500
\* the default limit of cgather
cgather_limit == 50
\* sizes of the candidate pool: below, at and above the limit and the chunk size
PoolSizes == {1, cgather_limit, cgather_limit + 1, chunk_size + 1}

VARIABLES
    n_pc,       \* "check" while the chunks are processed, "done" after
    n_pool,     \* len(unchecked_proxies)
    n_i,        \* the loop variable i: the offset of the current chunk
    n_started,  \* checks of the current chunk started
    n_finished  \* checks of the current chunk finished

nVars == <<n_pc, n_pool, n_i, n_started, n_finished>>

\* len(unchecked_proxies[i : i + chunk_size])
ChunkLen == IF n_pool - n_i < chunk_size THEN n_pool - n_i ELSE chunk_size

ChecksInFlight == n_started - n_finished

\* fetch_proxies lines 212-219: a pool that is not empty, and the first chunk
CountInit ==
    /\ n_pc = "check"
    /\ n_pool \in PoolSizes
    /\ n_i = 0
    /\ n_started = 0
    /\ n_finished = 0

\* check_list_of_proxies lines 185-186: asyncio.gather starts the check of a
\* candidate of the chunk; nothing bounds the number started
count_check_start ==
    /\ n_pc = "check"
    /\ n_started < ChunkLen
    /\ n_started' = n_started + 1
    /\ UNCHANGED <<n_pc, n_pool, n_i, n_finished>>

\* a check that was started ends
count_check_finish ==
    /\ n_pc = "check"
    /\ n_finished < n_started
    /\ n_finished' = n_finished + 1
    /\ UNCHANGED <<n_pc, n_pool, n_i, n_started>>

\* lines 219-246: every check of the chunk is over, its results are handled
\* and the loop moves to the next chunk or ends
count_chunk_done ==
    /\ n_pc = "check"
    /\ n_finished = ChunkLen
    /\ IF n_i + chunk_size < n_pool
       THEN n_pc' = "check" /\ n_i' = n_i + chunk_size
       ELSE n_pc' = "done" /\ n_i' = n_i
    /\ n_started' = 0
    /\ n_finished' = 0
    /\ UNCHANGED n_pool

CountIdle ==
    /\ n_pc = "idle"
    /\ n_pool = 0
    /\ n_i = 0
    /\ n_started = 0
    /\ n_finished = 0

(***************************************************************************)
(* repository/proxy.py: ProxyRepository.add_bulk, with the tables proxies  *)
(* and proxies_health of models/proxy.py                                    *)
(***************************************************************************)
\* proxies of one add_bulk call: at most MaxBatch
MaxBatch == 2
\* add_bulk calls: at most MaxCalls
MaxCalls == 2

\* (address, port, protocol) of the proxies offered
ProxyKeys ==
    { <<"8.8.8.8", 8080, "HTTP">>, <<"8.8.8.8", 8080, "SOCKS5">>, <<"1.2.3.4", 8080, "HTTP">> }

\* the initial latency of a proxy offered
OfferedLatencies == {10, 20}

\* what one call offers: per proxy its key and its initial latency
RECURSIVE Offers(_)
Offers(n) ==
    IF n = 0
    THEN {<<>>}
    ELSE LET shorter == Offers(n - 1)
         IN  shorter \cup
                {Append(l, [key |-> k, latency |-> t]) :
                    l \in {x \in shorter : Len(x) = n - 1}, k \in ProxyKeys, t \in OfferedLatencies}

VARIABLES
    db_proxies,  \* the rows of table proxies
    db_health,   \* the rows of table proxies_health
    db_nextid,   \* the next fresh id (service/proxy.py _build: uuid4())
    db_calls,    \* add_bulk calls made
    db_first,    \* per key: the first record offered with it (None before)
    db_ignored   \* rows ignored as duplicates so far

dbVars == <<db_proxies, db_health, db_nextid, db_calls, db_first, db_ignored>>

DbInit ==
    /\ db_proxies = {}
    /\ db_health = {}
    /\ db_nextid = 1
    /\ db_calls = 0
    /\ db_first = [k \in ProxyKeys |-> None]
    /\ db_ignored = 0

\* service/proxy.py create_bulk and _build: a Proxy with a fresh id for every
\* record offered, and its ProxyHealth
BuildProxies(offer, firstid) ==
    [n \in 1..Len(offer) |->
        [id |-> firstid + n - 1, key |-> offer[n].key, latency |-> offer[n].latency]]

pg_insert_on_conflict_do_update(table, row) ==
    {r \in table : r.key # row.key} \cup {row}

\* one row of INSERT ... ON CONFLICT DO NOTHING on proxies: the row is stored
\* unless a stored row has its id or its (address, port, protocol)
\* (models/proxy.py line 119)
pg_insert_on_conflict_do_nothing(table, row) ==
    IF \E r \in table : r.key = row.key \/ r.id = row.id THEN table ELSE table \cup {row}

\* add_bulk lines 56-59: the rows of the statement, in order
RECURSIVE InsertProxies(_, _, _)
InsertProxies(table, rows, n) ==
    IF n = 0
    THEN table
    ELSE pg_insert_on_conflict_do_nothing(InsertProxies(table, rows, n - 1), rows[n])

InsertHealthOfEveryOffer(table, rows, inserted_ids) ==
    table \cup
        {[proxy_id |-> rows[n].id, latency |-> rows[n].latency] :
            n \in {m \in 1..Len(rows) : ~\E h \in table : h.proxy_id = rows[m].id}}

\* add_bulk lines 63-67: a health row for every proxy whose id was returned,
\* unless a health row of that proxy is stored
InsertHealth(table, rows, inserted_ids) ==
    table \cup
        {[proxy_id |-> rows[n].id, latency |-> rows[n].latency] :
            n \in {m \in 1..Len(rows) :
                    /\ rows[m].id \in inserted_ids
                    /\ ~\E h \in table : h.proxy_id = rows[m].id}}

\* the first record offered with key k in the list, None without any
FirstWithKey(rows, k) ==
    LET at == {n \in 1..Len(rows) : rows[n].key = k}
    IN  IF at = {} THEN None ELSE Some(rows[CHOOSE n \in at : \A m \in at : n <= m])

\* ProxyRepository.add_bulk, called by ProxyService.create_bulk in one unit of
\* work that commits
add_bulk ==
    /\ db_calls < MaxCalls
    /\ \E offer \in Offers(MaxBatch) :
        LET rows == BuildProxies(offer, db_nextid)
            stored == IF rows = <<>> THEN db_proxies ELSE InsertProxies(db_proxies, rows, Len(rows))
            inserted_ids == {r.id : r \in stored \ db_proxies}
        IN  /\ db_proxies' = stored
            /\ db_health' = InsertHealth(db_health, rows, inserted_ids)
            /\ db_nextid' = db_nextid + Len(rows)
            /\ db_first' =
                 [k \in ProxyKeys |-> IF db_first[k] # None THEN db_first[k] ELSE FirstWithKey(rows, k)]
            /\ db_ignored' = db_ignored + Len(rows) - Cardinality(inserted_ids)
    /\ db_calls' = db_calls + 1

DbIdle ==
    /\ db_proxies = {}
    /\ db_health = {}
    /\ db_nextid = 0
    /\ db_calls = 0
    /\ db_first = <<>>
    /\ db_ignored = 0

(***************************************************************************)
(* tasks/check_proxies.py: check_single_proxy and check_proxies             *)
(***************************************************************************)
\* runs of check_proxies: at most MaxRuns
MaxRuns == 2

\* the stored proxies
CProxies == {1, 2}

NumProxies == Cardinality(CProxies)

\* response times a check may measure
CheckLatencies == {10, 20}

\* what check_proxy_with_aws returns: (success, response time)
AwsResults == {<<FALSE, 0>>} \cup {<<TRUE, t>> : t \in CheckLatencies}

\* the health of a stored proxy as service/proxy.py _build makes it: never
\* tested, or with the initial health of the fetch (tested at time 0)
InitialHealths ==
    {[total_conn_attemps |-> 0, failed_conn_attemps |-> 0, latency |-> 0, last_tested |-> None]}
        \cup {[total_conn_attemps |-> 1, failed_conn_attemps |-> 0, latency |-> t,
               last_tested |-> Some(0)] : t \in CheckLatencies}

VARIABLES
    c_pc,       \* position in check_proxies
    c_runs,     \* runs of check_proxies started
    c_now,      \* the clock
    c_stored,   \* per proxy: its stored health
    c_order,    \* the proxies as get_proxies returned them
    c_obj,      \* per proxy: the health of the object loaded by this run
    c_task,     \* per proxy: its check "created", "running", "ok", "raised"
    c_outcome,  \* per proxy: what check_proxy_with_aws returned (None before)
    c_k,        \* the index of the loop over the gathered values
    c_hist,     \* per proxy, a record of its checks that returned a result: whether
                \* it started from zero counters, how many there were (n), how
                \* many failed (f), the time of the last success (None before)
    c_ops       \* the storage operations of the current run after its load, in
                \* order: "read" or "write"

cVars ==
    <<c_pc, c_runs, c_now, c_stored, c_order, c_obj, c_task, c_outcome, c_k, c_hist, c_ops>>

CheckInit ==
    /\ c_pc = "start"
    /\ c_runs = 0
    /\ c_now = 0
    /\ c_stored \in [CProxies -> InitialHealths]
    /\ c_order = <<>>
    /\ c_obj = c_stored
    /\ c_task = [p \in CProxies |-> "none"]
    /\ c_outcome = [p \in CProxies |-> None]
    /\ c_k = 0
    /\ c_hist = [p \in CProxies |->
                    [zero |-> c_stored[p].total_conn_attemps = 0, n |-> 0, f |-> 0,
                     last_success |-> None]]
    /\ c_ops = <<>>

\* last_tested ascending, NULLs first (repository/proxy.py line 274)
NullsFirstLeq(a, b) == a = None \/ (b # None /\ a[1] <= b[1])

\* the orders get_proxies(sort_by_unchecked=True) may return the proxies in
SortedByUnchecked ==
    {o \in [1..NumProxies -> CProxies] :
        /\ \A p \in CProxies : \E n \in 1..NumProxies : o[n] = p
        /\ \A n, m \in 1..NumProxies :
              n < m => NullsFirstLeq(c_stored[o[n]].last_tested, c_stored[o[m]].last_tested)}

\* check_proxies lines 252-260: the proxies are loaded and a check task is
\* created for each
check_proxies_load ==
    /\ c_pc = "start"
    /\ c_runs < MaxRuns
    /\ c_runs' = c_runs + 1
    /\ c_order' \in SortedByUnchecked
    /\ c_obj' = c_stored
    /\ c_task' = [p \in CProxies |-> "created"]
    /\ c_outcome' = [p \in CProxies |-> None]
    /\ c_pc' = "gather"
    /\ c_k' = 0
    /\ c_ops' = <<>>
    /\ UNCHANGED <<c_now, c_stored, c_hist>>

\* check_single_proxy line 226: the task runs up to its first request
check_single_proxy_start(p) ==
    /\ c_pc = "gather"
    /\ c_task[p] = "created"
    /\ c_task' = [c_task EXCEPT ![p] = "running"]
    /\ UNCHANGED <<c_pc, c_runs, c_now, c_stored, c_order, c_obj, c_outcome, c_k, c_hist,
                   c_ops>>

check_single_proxy_update_stamps_every_attempt(health, success, response_time, now) ==
    [health EXCEPT
        !.total_conn_attemps = @ + 1,
        !.failed_conn_attemps = IF success THEN @ ELSE @ + 1,
        !.latency = IF success THEN response_time ELSE @,
        !.last_tested = Some(now)]

check_single_proxy_update_counts_failures_only(health, success, response_time, now) ==
    IF success
    THEN [health EXCEPT !.latency = response_time, !.last_tested = Some(now)]
    ELSE [health EXCEPT !.total_conn_attemps = @ + 1, !.failed_conn_attemps = @ + 1]

\* check_single_proxy lines 234-240
check_single_proxy_update(health, success, response_time, now) ==
    LET counted == [health EXCEPT !.total_conn_attemps = @ + 1]
    IN  IF success
        THEN [counted EXCEPT !.latency = response_time, !.last_tested = Some(now)]
        ELSE [counted EXCEPT !.failed_conn_attemps = @ + 1]

\* check_single_proxy lines 226-242: check_proxy_with_aws returned and the
\* health of the proxy is updated
check_single_proxy_return(p) ==
    /\ c_pc = "gather"
    /\ c_task[p] = "running"
    /\ c_now' = c_now + 1
    /\ \E result \in AwsResults :
        /\ c_outcome' = [c_outcome EXCEPT ![p] = Some(result)]
        /\ c_obj' = [c_obj EXCEPT ![p] = check_single_proxy_update(@, result[1], result[2], c_now')]
    /\ c_task' = [c_task EXCEPT ![p] = "ok"]
    /\ c_hist' = [c_hist EXCEPT
                    ![p].n = @ + 1,
                    ![p].f = IF c_outcome'[p][1][1] THEN @ ELSE @ + 1,
                    ![p].last_success = IF c_outcome'[p][1][1] THEN Some(c_now') ELSE @]
    /\ UNCHANGED <<c_pc, c_runs, c_stored, c_order, c_k, c_ops>>

\* check_single_proxy line 226: check_proxy_with_aws raised, nothing is updated
check_single_proxy_raise(p) ==
    /\ c_pc = "gather"
    /\ c_task[p] = "running"
    /\ c_now' = c_now + 1
    /\ c_task' = [c_task EXCEPT ![p] = "raised"]
    /\ UNCHANGED <<c_pc, c_runs, c_stored, c_order, c_obj, c_outcome, c_k, c_hist, c_ops>>

\* line 260: asyncio.gather(..., return_exceptions=True) is over
check_proxies_gathered ==
    /\ c_pc = "gather"
    /\ \A p \in CProxies : c_task[p] \in {"ok", "raised"}
    /\ c_pc' = "update"
    /\ c_k' = 1
    /\ UNCHANGED <<c_runs, c_now, c_stored, c_order, c_obj, c_task, c_outcome, c_hist, c_ops>>

check_proxies_update_counts_exception_as_failure ==
    /\ c_pc = "update"
    /\ c_k <= NumProxies
    /\ LET p == c_order[c_k]
       IN  c_stored' =
             [c_stored EXCEPT ![p] =
                IF c_task[p] = "raised"
                THEN [c_obj[p] EXCEPT !.total_conn_attemps = @ + 1, !.failed_conn_attemps = @ + 1]
                ELSE c_obj[p]]
    /\ c_ops' = c_ops \o <<"read", "write">>
    /\ c_k' = c_k + 1
    /\ UNCHANGED <<c_pc, c_runs, c_now, c_order, c_obj, c_task, c_outcome, c_hist>>

\* lines 262-265: one turn of the loop: an exception is skipped, a proxy is
\* written with proxy_service.update, which opens a unit of work, reads the
\* stored proxy (repository/proxy.py line 94), merges the object (line 100)
\* and commits
check_proxies_update ==
    /\ c_pc = "update"
    /\ c_k <= NumProxies
    /\ LET p == c_order[c_k]
       IN  IF c_task[p] = "raised"
           THEN c_stored' = c_stored /\ c_ops' = c_ops
           ELSE /\ c_stored' = [c_stored EXCEPT ![p] = c_obj[p]]
                /\ c_ops' = c_ops \o <<"read", "write">>
    /\ c_k' = c_k + 1
    /\ UNCHANGED <<c_pc, c_runs, c_now, c_order, c_obj, c_task, c_outcome, c_hist>>

\* the loop is over and check_proxies returns; the scheduler may start it again
check_proxies_return ==
    /\ c_pc = "update"
    /\ c_k > NumProxies
    /\ c_pc' = "start"
    /\ UNCHANGED <<c_runs, c_now, c_stored, c_order, c_obj, c_task, c_outcome, c_k, c_hist,
                   c_ops>>

CheckIdle ==
    /\ c_pc = "idle"
    /\ c_runs = 0
    /\ c_now = 0
    /\ c_stored = <<>>
    /\ c_order = <<>>
    /\ c_obj = <<>>
    /\ c_task = <<>>
    /\ c_outcome = <<>>
    /\ c_k = 0
    /\ c_hist = <<>>
    /\ c_ops = <<>>

(***************************************************************************)
(* tasks/fetch_proxies.py: try_parse_ip_port                               *)
(***************************************************************************)
\* A line is kept as the list of its colon-separated segments, which is what
\* proxy_line.split(":") gives; a segment is a sequence of tokens: a slash, an
\* IP literal, a run of digits, or other text.
\* segments of a line: 1..MaxSegments
MaxSegments == 4

PORT_RANGE_START == 1

PORT_RANGE_END == 65535

\* the tokens int() reads as an integer, with their values
IntTexts == {"0", "1", "8080", "65535", "65536"}

IntValue(tok) ==
    CASE tok = "0" -> 0
      [] tok = "1" -> 1
      [] tok = "8080" -> 8080
      [] tok = "65535" -> 65535
      [] tok = "65536" -> 65536

ParseSegments ==
    { <<>>, <<"http">>, <<"8.8.8.8">>, <<"/", "/", "8.8.8.8">>, <<"/", "8.8.8.8">>,
      <<"example.com">>, <<"notaport">>, <<"0">>, <<"1">>, <<"65535">>, <<"65536">> }

\* the lines of at most n segments
RECURSIVE ParseLines(_)
ParseLines(n) ==
    IF n = 1
    THEN {<<seg>> : seg \in ParseSegments}
    ELSE LET shorter == ParseLines(n - 1)
         IN  shorter \cup
                {Append(l, seg) : l \in {x \in shorter : Len(x) = n - 1}, seg \in ParseSegments}

\* int(text): the integer, or None where it raises ValueError
int(text) == IF Len(text) = 1 /\ text[1] \in IntTexts THEN Some(IntValue(text[1])) ELSE None

\* str.lstrip("/")
RECURSIVE lstrip_slash(_)
lstrip_slash(text) == IF text # <<>> /\ Head(text) = "/" THEN lstrip_slash(Tail(text)) ELSE text

validate_port_from_zero(port) == 0 <= port /\ port <= PORT_RANGE_END

\* validate_port: TRUE where it returns, FALSE where it raises ValueError
validate_port(port) == PORT_RANGE_START <= port /\ port <= PORT_RANGE_END

\* the try block of try_parse_ip_port, lines 58-70: what it leaves, or the
\* exception it ends with
try_parse_ip_port_body(substrings) ==
    LET parts_length == Len(substrings)
        ip_str == IF parts_length = 2 THEN substrings[1] ELSE lstrip_slash(substrings[2])
        port_str == substrings[parts_length]
    IN  IF parts_length \notin {2, 3}
        THEN [kind |-> "return", value |-> None]
        ELSE IF ip_address(ip_str) = "ValueError"
        THEN [kind |-> "raise", value |-> "ValueError"]
        ELSE IF int(port_str) = None
        THEN [kind |-> "raise", value |-> "ValueError"]
        ELSE IF ~validate_port(int(port_str)[1])
        THEN [kind |-> "raise", value |-> "ValueError"]
        ELSE [kind |-> "fallthrough", value |-> Some(<<ip_address(ip_str), int(port_str)[1]>>)]

\* try_parse_ip_port: `except ValueError: return None`, else the pair
try_parse_ip_port(substrings) ==
    LET body == try_parse_ip_port_body(substrings)
    IN  IF body.kind = "raise"
        THEN IF body.value = "ValueError" THEN [kind |-> "return", value |-> None] ELSE body
        ELSE [kind |-> "return", value |-> body.value]

VARIABLES
    p_pc,      \* "call" before try_parse_ip_port is applied, "done" after
    p_line,    \* the line, as its segments
    p_result   \* how the call ended (None before)

pVars == <<p_pc, p_line, p_result>>

ParseInit ==
    /\ p_pc = "call"
    /\ p_line \in ParseLines(MaxSegments)
    /\ p_result = None

try_parse_ip_port_call ==
    /\ p_pc = "call"
    /\ p_result' = Some(try_parse_ip_port(p_line))
    /\ p_pc' = "done"
    /\ UNCHANGED p_line

ParseIdle ==
    /\ p_pc = "idle"
    /\ p_line = <<>>
    /\ p_result = None

(***************************************************************************)
(* tasks/fetch_proxies.py: download_proxy_list                             *)
(***************************************************************************)
\* lines of a downloaded body: 0..MaxLines
MaxLines == 5

\* the lines a body is made of, each as its colon-separated segments
DownloadLines ==
    { << <<"127.0.0.1">>, <<"8080">> >>, << <<"8.8.8.8">>, <<"8080">> >>, << <<"invalid">> >>,
      << <<"1.2.3.4">>, <<"0">> >>, << <<"1.2.3.4">>, <<"65536">> >> }

\* the bodies of at most n lines; the empty body is the empty text
RECURSIVE DownloadBodies(_)
DownloadBodies(n) ==
    IF n = 0
    THEN {<<>>}
    ELSE LET shorter == DownloadBodies(n - 1)
         IN  shorter \cup
                {Append(b, l) : b \in {x \in shorter : Len(x) = n - 1}, l \in DownloadLines}

\* how session.get / response.text() of download_proxy_list end: with a
\* response, or raising aiohttp's ClientError or an error that is none
DownloadRequests ==
    {[kind |-> "response", status |-> st, data |-> b, exc |-> ""] :
        st \in {HTTP_STATUS_OK, 500}, b \in DownloadBodies(MaxLines)}
        \cup {[kind |-> "raise", status |-> 0, data |-> <<>>, exc |-> e] :
                e \in {"ClientError", "TimeoutError"}}

\* lines 109-118: the candidates of the lines that parse, in the order of the
\* lines (the protocol of the source is appended to each and left out here)
RECURSIVE ParsedCandidates(_)
ParsedCandidates(lines) ==
    IF lines = <<>>
    THEN <<>>
    ELSE LET parse_result == try_parse_ip_port(Head(lines)).value
         IN  (IF parse_result = None THEN <<>> ELSE <<parse_result[1]>>)
                \o ParsedCandidates(Tail(lines))

\* download_proxy_list, lines 94-120.  A ClientError is caught and logged
\* (lines 105-107) and the function goes on to data.splitlines() (line 111)
\* with `data` never assigned: UnboundLocalError.  Another exception leaves
\* the function as it is.
download_proxy_list(request) ==
    IF request.kind = "raise"
    THEN IF request.exc = "ClientError"
         THEN [kind |-> "raise", value |-> "UnboundLocalError"]
         ELSE [kind |-> "raise", value |-> request.exc]
    ELSE IF request.status # HTTP_STATUS_OK
    THEN [kind |-> "return", value |-> None]
    ELSE IF request.data = <<>>
    THEN [kind |-> "return", value |-> None]
    ELSE [kind |-> "return", value |-> Some(ParsedCandidates(request.data))]

VARIABLES
    d_pc,       \* "call" before download_proxy_list is applied, "done" after
    d_request,  \* how the HTTP request of the call ends
    d_result    \* how the call ended (None before)

dVars == <<d_pc, d_request, d_result>>

DownloadInit ==
    /\ d_pc = "call"
    /\ d_request \in DownloadRequests
    /\ d_result = None

download_proxy_list_call ==
    /\ d_pc = "call"
    /\ d_result' = Some(download_proxy_list(d_request))
    /\ d_pc' = "done"
    /\ UNCHANGED d_request

DownloadIdle ==
    /\ d_pc = "idle"
    /\ d_request = <<>>
    /\ d_result = None

(***************************************************************************)
(* tasks/utils/network_request.py: try_http_request_with_proxy             *)
(***************************************************************************)
HTTP_STATUS_MULTIPLE_CHOICES == 300

\* The exceptions a request may end with, each with the classes it is an
\* instance of (itself and its bases, up to Exception).
RequestFailures ==
    { "ClientError", "ClientConnectorError", "ClientConnectorCertificateError",
      "ClientConnectorSSLError", "ServerTimeoutError", "TooManyRedirects",
      "ProxyConnectionError", "ProxyError", "ProxyTimeoutError", "OSError",
      "ConnectionResetError", "IncompleteReadError", "UnicodeDecodeError", "RuntimeError" }

Bases(exc) ==
    {exc, "Exception"} \cup
    CASE exc \in {"ClientConnectorError"} -> {"ClientError", "OSError"}
      [] exc \in {"ClientConnectorCertificateError", "ClientConnectorSSLError",
                  "TooManyRedirects"} -> {"ClientError"}
      [] exc = "ServerTimeoutError" -> {"ClientError", "TimeoutError"}
      [] exc \in {"ProxyConnectionError", "ConnectionResetError"} -> {"OSError"}
      [] exc = "ProxyTimeoutError" -> {"TimeoutError"}
      [] exc = "UnicodeDecodeError" -> {"ValueError"}
      [] OTHER -> {}

ExceptClausesWithoutCatchAll ==
    << {"ClientError", "ClientConnectorCertificateError", "ClientConnectorSSLError"},
       {"ProxyConnectionError", "ProxyError", "OSError", "IncompleteReadError"} >>

\* the except clauses of lines 114-128, in their order
ExceptClauses ==
    << {"ClientError", "ClientConnectorCertificateError", "ClientConnectorSSLError"},
       {"ProxyConnectionError", "ProxyError", "OSError", "IncompleteReadError"},
       {"Exception"} >>

\* the exception is an instance of a class of one of the except clauses
IsCaught(exc) == \E n \in 1..Len(ExceptClauses) : ExceptClauses[n] \cap Bases(exc) # {}

VARIABLES
    h_pc,        \* position in try_http_request_with_proxy
    h_response,  \* the response received: (time, status), None before and without
    h_text,      \* the body read
    h_raised,    \* the exception the request or the read ended with (None without)
    h_shutdowns, \* calls of graceful_shutdown
    h_result,    \* how the call ended (None before)
    h_protocol,  \* the protocol argument of the call
    h_pauses     \* the asyncio.sleep calls of the call, in milliseconds, in order

hVars == <<h_pc, h_response, h_text, h_raised, h_shutdowns, h_result, h_protocol, h_pauses>>

\* graceful_shutdown, lines 56-61: the length of its sleep in milliseconds
graceful_shutdown(protocol) == IF protocol # None /\ protocol = Some("HTTPS") THEN 250 ELSE 0

HttpInit ==
    /\ h_pc = "get"
    /\ h_response = None
    /\ h_text = <<>>
    /\ h_raised = None
    /\ h_shutdowns = 0
    /\ h_result = None
    /\ h_protocol \in Protocol
    /\ h_pauses = <<>>

\* lines 114-128: the exception is handled by its except clause, which goes
\* on after the try statement, or it leaves the function
HandleException(exc) ==
    /\ h_raised' = Some(exc)
    /\ IF IsCaught(exc)
       THEN h_pc' = "except" /\ h_result' = h_result
       ELSE h_pc' = "done" /\ h_result' = Some([kind |-> "raise", value |-> exc])

\* lines 101-108: session.get gives a response, whose body is read only for a
\* 2xx status, or it raises
session_get ==
    /\ h_pc = "get"
    /\ \/ \E t \in 0..MaxLatency, st \in Statuses :
            /\ h_response' = Some([time |-> t, status |-> st])
            /\ h_pc' = IF HTTP_STATUS_OK <= st /\ st < HTTP_STATUS_MULTIPLE_CHOICES
                       THEN "text"
                       ELSE "shutdown"
            /\ UNCHANGED <<h_raised, h_result>>
       \/ \E exc \in RequestFailures : HandleException(exc) /\ UNCHANGED h_response
    /\ UNCHANGED <<h_text, h_shutdowns, h_protocol, h_pauses>>

\* line 108: body = await resp.text(), which may raise as well
resp_text ==
    /\ h_pc = "text"
    /\ \/ \E body \in Bodies : h_text' = body /\ h_pc' = "shutdown" /\ UNCHANGED <<h_raised, h_result>>
       \/ \E exc \in RequestFailures : HandleException(exc) /\ UNCHANGED h_text
    /\ UNCHANGED <<h_response, h_shutdowns, h_protocol, h_pauses>>

\* lines 110-112: graceful_shutdown, then the result is returned
return_result ==
    /\ h_pc = "shutdown"
    /\ h_shutdowns' = h_shutdowns + 1
    /\ h_result' =
          Some([kind |-> "return",
                value |-> Some([time |-> h_response[1].time, status |-> h_response[1].status,
                                text |-> h_text])])
    /\ h_pauses' = Append(h_pauses, graceful_shutdown(Some(h_protocol)))
    /\ h_pc' = "done"
    /\ UNCHANGED <<h_response, h_text, h_raised, h_protocol>>

return_none_without_shutdown ==
    /\ h_pc = "except"
    /\ h_result' = Some([kind |-> "return", value |-> None])
    /\ h_pc' = "done"
    /\ UNCHANGED <<h_response, h_text, h_raised, h_shutdowns, h_protocol, h_pauses>>

\* lines 130-131: after a handled exception, graceful_shutdown and return None
return_none ==
    /\ h_pc = "except"
    /\ h_shutdowns' = h_shutdowns + 1
    /\ h_result' = Some([kind |-> "return", value |-> None])
    /\ h_pauses' = Append(h_pauses, graceful_shutdown(Some(h_protocol)))
    /\ h_pc' = "done"
    /\ UNCHANGED <<h_response, h_text, h_raised, h_protocol>>

HttpIdle ==
    /\ h_pc = "idle"
    /\ h_response = None
    /\ h_text = <<>>
    /\ h_raised = None
    /\ h_shutdowns = 0
    /\ h_result = None
    /\ h_protocol = "HTTP"
    /\ h_pauses = <<>>

(***************************************************************************)
(* tasks/utils/aws_check.py: format_proxy_url                              *)
(***************************************************************************)
\* A URL is kept as the sequence of the texts the f-string joins.
\* logins and passwords: absent, empty, lower case, mixed case
Logins == {None, Some(""), Some("u"), Some("User")}

Passwords == {None, Some(""), Some("p"), Some("Pass")}

FormatPorts == {1080, 8080}

\* str(port)
str(port) == IF port = 1080 THEN "1080" ELSE "8080"

\* str.lower() of one text
lower(text) ==
    CASE text = "HTTP" -> "http"
      [] text = "HTTPS" -> "https"
      [] text = "SOCKS4" -> "socks4"
      [] text = "SOCKS5" -> "socks5"
      [] text = "User" -> "user"
      [] text = "Pass" -> "pass"
      [] OTHER -> text

\* Python's truth value of an optional string
Truthy(text) == text # None /\ text[1] # ""

format_proxy_url_any_socks(address, port, protocol, login, password) ==
    LET credentials ==
            IF protocol \in {"SOCKS4", "SOCKS5"} /\ Truthy(login) /\ Truthy(password)
            THEN <<login[1], ":", password[1], "@">>
            ELSE <<>>
        protocol_value == IF protocol = "HTTPS" THEN "http" ELSE protocol
        url == <<protocol_value, "://">> \o credentials \o <<address, ":", str(port)>>
    IN  [n \in 1..Len(url) |-> lower(url[n])]

\* format_proxy_url, lines 29-37
format_proxy_url(address, port, protocol, login, password) ==
    LET credentials ==
            IF protocol = "SOCKS5" /\ Truthy(login) /\ Truthy(password)
            THEN <<login[1], ":", password[1], "@">>
            ELSE <<>>
        protocol_value == IF protocol = "HTTPS" THEN "http" ELSE protocol
        url == <<protocol_value, "://">> \o credentials \o <<address, ":", str(port)>>
    IN  [n \in 1..Len(url) |-> lower(url[n])]

VARIABLES
    u_pc,    \* "call" before format_proxy_url is applied, "done" after
    u_args,  \* the arguments of the call
    u_url    \* the URL returned (None before)

uVars == <<u_pc, u_args, u_url>>

FormatInit ==
    /\ u_pc = "call"
    /\ u_args \in [address : IPLiterals, port : FormatPorts, protocol : Protocol,
                    login : Logins, password : Passwords]
    /\ u_url = None

format_proxy_url_call ==
    /\ u_pc = "call"
    /\ u_url' = Some(format_proxy_url(u_args.address, u_args.port, u_args.protocol,
                                      u_args.login, u_args.password))
    /\ u_pc' = "done"
    /\ UNCHANGED u_args

FormatIdle ==
    /\ u_pc = "idle"
    /\ u_args = <<>>
    /\ u_url = None

(***************************************************************************)
(* tasks/utils/aws_check.py: validate_aws_response, called on its own      *)
(***************************************************************************)
\* the results validate_aws_response may be handed: any status with any body
ValidateResponses == [time : 0..MaxLatency, status : Statuses, text : Bodies]

VARIABLES
    v_pc,        \* "call" before validate_aws_response is applied, "done" after
    v_address,   \* the address the candidate advertises
    v_response,  \* the result validated
    v_valid      \* what the call returned (None before)

vVars == <<v_pc, v_address, v_response, v_valid>>

ValidateInit ==
    /\ v_pc = "call"
    /\ v_address \in Addresses
    /\ v_response \in ValidateResponses
    /\ v_valid = None

validate_aws_response_call ==
    /\ v_pc = "call"
    /\ v_valid' = Some(validate_aws_response(v_address, v_response))
    /\ v_pc' = "done"
    /\ UNCHANGED <<v_address, v_response>>

ValidateIdle ==
    /\ v_pc = "idle"
    /\ v_address = "1.2.3.4"
    /\ v_response = <<>>
    /\ v_valid = None

(***************************************************************************)
(* service/proxy.py and repository/proxy.py: get_proxies                   *)
(***************************************************************************)
\* country codes a caller may pass: none, a known one, an unknown one
CountryCodes == {None, Some("US"), Some("ZZ")}

\* pycountry.countries.get(alpha_2=code) finds the country
KnownCountry(code) == code = Some("US")

QueryArgs ==
    [protocol : {None} \cup {Some(x) : x \in Protocol}, country_alpha2_code : CountryCodes,
     only_checked : BOOLEAN, sort_by_unchecked : BOOLEAN]

VARIABLES
    q_pc,        \* position in get_proxies: "service", "uow", "repository", "exit", "done"
    q_level,     \* the level called: "service" or "repository"
    q_args,      \* the arguments of the call
    q_sessions,  \* units of work entered (sessions opened) by the call
    q_queries,   \* statements executed by the call
    q_result     \* how the call ended (None before)

qVars == <<q_pc, q_level, q_args, q_sessions, q_queries, q_result>>

QueryInit ==
    /\ q_level \in {"service", "repository"}
    /\ q_pc = q_level
    /\ q_args \in QueryArgs
    /\ q_sessions = 0
    /\ q_queries = 0
    /\ q_result = None

service_get_proxies_without_flag_check ==
    /\ q_pc = "service"
    /\ IF q_args.country_alpha2_code # None /\ ~KnownCountry(q_args.country_alpha2_code)
       THEN q_pc' = "done" /\ q_result' = Some([kind |-> "raise", value |-> "CountryCodeError"])
       ELSE q_pc' = "uow" /\ q_result' = q_result
    /\ UNCHANGED <<q_level, q_args, q_sessions, q_queries>>

\* ProxyService.get_proxies, lines 168-174: the flags, then the country code
service_get_proxies ==
    /\ q_pc = "service"
    /\ IF q_args.only_checked /\ q_args.sort_by_unchecked
       THEN q_pc' = "done" /\ q_result' = Some([kind |-> "raise", value |-> "ValueError"])
       ELSE IF q_args.country_alpha2_code # None /\ ~KnownCountry(q_args.country_alpha2_code)
       THEN q_pc' = "done" /\ q_result' = Some([kind |-> "raise", value |-> "CountryCodeError"])
       ELSE q_pc' = "uow" /\ q_result' = q_result
    /\ UNCHANGED <<q_level, q_args, q_sessions, q_queries>>

\* line 176: async with self.uow as uow
uow_enter ==
    /\ q_pc = "uow"
    /\ q_sessions' = q_sessions + 1
    /\ q_pc' = "repository"
    /\ UNCHANGED <<q_level, q_args, q_queries, q_result>>

\* ProxyRepository.get_proxies, lines 255-284: the flags, then the statement
\* is built and executed
repository_get_proxies ==
    /\ q_pc = "repository"
    /\ IF q_args.only_checked /\ q_args.sort_by_unchecked
       THEN /\ q_result' = Some([kind |-> "raise", value |-> "ValueError"])
            /\ q_queries' = q_queries
       ELSE /\ q_result' = Some([kind |-> "return", value |-> "proxies"])
            /\ q_queries' = q_queries + 1
    /\ q_pc' = IF q_level = "service" THEN "exit" ELSE "done"
    /\ UNCHANGED <<q_level, q_args, q_sessions>>

\* the unit of work is left and the service returns what the repository gave
uow_exit ==
    /\ q_pc = "exit"
    /\ q_pc' = "done"
    /\ UNCHANGED <<q_level, q_args, q_sessions, q_queries, q_result>>

QueryIdle ==
    /\ q_pc = "idle"
    /\ q_level = "service"
    /\ q_args = <<>>
    /\ q_sessions = 0
    /\ q_queries = 0
    /\ q_result = None

(***************************************************************************)
(* async_task_runner (tasks/celery.py): concurrent invocations of the same *)
(* task function, each in its own worker, around the Redis key             *)
(* lock:<task name>.                                                       *)
(***************************************************************************)
\* concurrent invocations of the same task function
MaxRunners == 2

\* ex=300 of line 72, counted in steps of the clock
LockExpiry == 2

Runners == 1 .. MaxRunners

\* current_task.request.id of an invocation: distinct ids, or no id at all
TaskIds(r) == {None, Some(r)}

VARIABLES
    l_id,       \* per invocation: its task id (None: the task has no id)
    l_pc,       \* per invocation: "start", "func", "get", "delete", "done"
    l_lock,     \* the value of the Redis key (None: the key does not exist)
    l_ttl,      \* the time the key has left before Redis expires it
    l_cur,      \* per invocation: current_value read by redis.get
    l_calls,    \* per invocation: how many times func() was called
    l_outcome   \* per invocation: "none", "skipped", "returned", "raised",
                \* "ValueError"

lVars == <<l_id, l_pc, l_lock, l_ttl, l_cur, l_calls, l_outcome>>

LockInit ==
    /\ l_id \in {f \in [Runners -> {None} \cup {Some(r) : r \in Runners}] :
                    \A r \in Runners : f[r] \in TaskIds(r)}
    /\ l_pc = [r \in Runners |-> "start"]
    /\ l_lock = None
    /\ l_ttl = 0
    /\ l_cur = [r \in Runners |-> None]
    /\ l_calls = [r \in Runners |-> 0]
    /\ l_outcome = [r \in Runners |-> "none"]

redis_set_overwrite(value, task_id) == [ok |-> TRUE, value |-> Some(task_id)]

\* SET key task_id EX 300 NX: the key is written only if it does not exist
redis_set_nx(value, task_id) ==
    IF value = None
    THEN [ok |-> TRUE, value |-> Some(task_id)]
    ELSE [ok |-> FALSE, value |-> value]

\* lines 66-77: the task id, the SET, and either the return or the call of func
runner_set(r) ==
    /\ l_pc[r] = "start"
    /\ IF l_id[r] = None
       THEN /\ l_pc' = [l_pc EXCEPT ![r] = "done"]
            /\ l_outcome' = [l_outcome EXCEPT ![r] = "ValueError"]
            /\ UNCHANGED <<l_lock, l_ttl, l_calls>>
       ELSE LET reply == redis_set_nx(l_lock, l_id[r][1]) IN
            /\ l_lock' = reply.value
            /\ IF reply.ok
               THEN /\ l_ttl' = LockExpiry
                    /\ l_pc' = [l_pc EXCEPT ![r] = "func"]
                    /\ l_calls' = [l_calls EXCEPT ![r] = @ + 1]
                    /\ l_outcome' = l_outcome
               ELSE /\ l_ttl' = l_ttl
                    /\ l_pc' = [l_pc EXCEPT ![r] = "done"]
                    /\ l_calls' = l_calls
                    /\ l_outcome' = [l_outcome EXCEPT ![r] = "skipped"]
    /\ UNCHANGED <<l_id, l_cur>>

\* line 77: func() finishes, by returning or by raising
runner_func_finish(r) ==
    /\ l_pc[r] = "func"
    /\ \E how \in {"returned", "raised"} :
           l_outcome' = [l_outcome EXCEPT ![r] = how]
    /\ l_pc' = [l_pc EXCEPT ![r] = "get"]
    /\ UNCHANGED <<l_id, l_lock, l_ttl, l_cur, l_calls>>

\* lines 79-80: GET, and the comparison with the task id
runner_get(r) ==
    /\ l_pc[r] = "get"
    /\ l_cur' = [l_cur EXCEPT ![r] = l_lock]
    /\ l_pc' = [l_pc EXCEPT ![r] = IF l_lock = l_id[r] THEN "delete" ELSE "done"]
    /\ UNCHANGED <<l_id, l_lock, l_ttl, l_calls, l_outcome>>

\* line 81: DEL removes the key, whatever its value is by now
runner_delete(r) ==
    /\ l_pc[r] = "delete"
    /\ l_lock' = None
    /\ l_ttl' = 0
    /\ l_pc' = [l_pc EXCEPT ![r] = "done"]
    /\ UNCHANGED <<l_id, l_cur, l_calls, l_outcome>>

\* time passes while the key exists; Redis removes it when its time is up
lock_tick ==
    /\ l_lock # None
    /\ l_ttl' = l_ttl - 1
    /\ l_lock' = IF l_ttl = 1 THEN None ELSE l_lock
    /\ UNCHANGED <<l_id, l_pc, l_cur, l_calls, l_outcome>>

LockIdle ==
    /\ l_id = <<>>
    /\ l_pc = <<>>
    /\ l_lock = None
    /\ l_ttl = 0
    /\ l_cur = <<>>
    /\ l_calls = <<>>
    /\ l_outcome = <<>>

(***************************************************************************)
(* SQLUnitOfWork (core/uow.py): one `async with` block, from the end of    *)
(* the block through __aexit__ to what the caller of the block sees.       *)
(***************************************************************************)
\* changes a block may leave in its session
MaxWrites == 2

\* exceptions a block may end with
BlockExceptions ==
    {"NotFoundError", "DatabaseError", "SQLAlchemyError", "IntegrityError", "ValueError"}

\* exceptions session.commit() may end with
CommitExceptions == {"SQLAlchemyError", "IntegrityError"}

\* the classes an exception is an instance of (core/exceptions.py, sqlalchemy.exc)
UowBases(exc) ==
    {exc, "Exception"} \cup
    CASE exc \in {"NotFoundError", "DatabaseError"} -> {"BaseError"}
      [] exc = "IntegrityError" -> {"SQLAlchemyError"}
      [] OTHER -> {}

isinstance(exc_value, class) == exc_value # None /\ class \in UowBases(exc_value[1])

VARIABLES
    w_pc,         \* "block", "commit", "rollback", "close", "return", "done"
    w_block,      \* the exception the block ended with (None: it ended normally)
    w_exc_value,  \* exc_value of __aexit__
    w_pending,    \* changes in the session that are not committed
    w_before,     \* changes committed to the database before the block
    w_db,         \* changes committed to the database
    w_open,       \* the session is open
    w_commits,    \* calls of session.commit()
    w_rollbacks,  \* calls of session.rollback()
    w_failed,     \* session.commit() raised
    w_caller      \* what the caller of the block sees: None before the end,
                  \* then "normal" or the exception raised

wVars == <<w_pc, w_block, w_exc_value, w_pending, w_before, w_db, w_open, w_commits,
           w_rollbacks, w_failed, w_caller>>

\* after __aenter__: a new session, nothing done in it yet
UowInit ==
    /\ w_pc = "block"
    /\ w_block = None
    /\ w_exc_value = None
    /\ w_pending = 0
    /\ w_before \in 0 .. MaxWrites
    /\ w_db = w_before
    /\ w_open = TRUE
    /\ w_commits = 0
    /\ w_rollbacks = 0
    /\ w_failed = FALSE
    /\ w_caller = None

\* the block adds a change to its session (uow.proxy_repository.add, ...)
block_write ==
    /\ w_pc = "block"
    /\ w_pending < MaxWrites
    /\ w_pending' = w_pending + 1
    /\ UNCHANGED <<w_pc, w_block, w_exc_value, w_before, w_db, w_open, w_commits, w_rollbacks,
                   w_failed, w_caller>>

\* the block ends, normally or with an exception; line 63
block_end ==
    /\ w_pc = "block"
    /\ \E exc \in {None} \cup {Some(e) : e \in BlockExceptions} :
           /\ w_block' = exc
           /\ w_exc_value' = exc
           /\ w_pc' = IF exc # None THEN "rollback" ELSE "commit"
    /\ UNCHANGED <<w_pending, w_before, w_db, w_open, w_commits, w_rollbacks, w_failed,
                   w_caller>>

\* lines 66-70: _commit(), and the SQLAlchemyError it may raise
uow_commit ==
    /\ w_pc = "commit"
    /\ w_commits' = w_commits + 1
    /\ \/ /\ w_db' = w_db + w_pending
          /\ w_pending' = 0
          /\ w_pc' = "close"
          /\ UNCHANGED <<w_exc_value, w_failed>>
       \/ \E exc \in CommitExceptions :
              /\ w_exc_value' = Some(exc)
              /\ w_failed' = TRUE
              /\ w_pc' = "rollback"
              /\ UNCHANGED <<w_db, w_pending>>
    /\ UNCHANGED <<w_block, w_before, w_open, w_rollbacks, w_caller>>

\* lines 64 and 72: _rollback()
uow_rollback ==
    /\ w_pc = "rollback"
    /\ w_rollbacks' = w_rollbacks + 1
    /\ w_pending' = 0
    /\ w_pc' = "close"
    /\ UNCHANGED <<w_block, w_exc_value, w_before, w_db, w_open, w_commits, w_failed,
                   w_caller>>

\* lines 74-75: session.close()
session_close ==
    /\ w_pc = "close"
    /\ w_open' = FALSE
    /\ w_pc' = "return"
    /\ UNCHANGED <<w_block, w_exc_value, w_pending, w_before, w_db, w_commits, w_rollbacks,
                   w_failed, w_caller>>

aexit_result_swallowing(block, exc_value) ==
    IF isinstance(exc_value, "BaseError") THEN "normal"
    ELSE IF isinstance(exc_value, "SQLAlchemyError") THEN "DatabaseError"
    ELSE IF block # None THEN block[1] ELSE "normal"

\* lines 78-85: what the `async with` statement ends with. Returning False
\* lets the exception of the block go on; raising replaces it.
aexit_result(block, exc_value) ==
    IF isinstance(exc_value, "BaseError")
    THEN block[1]
    ELSE IF isinstance(exc_value, "SQLAlchemyError")
    THEN "DatabaseError"
    ELSE IF block # None THEN block[1] ELSE "normal"

aexit_return ==
    /\ w_pc = "return"
    /\ w_caller' = Some(aexit_result(w_block, w_exc_value))
    /\ w_pc' = "done"
    /\ UNCHANGED <<w_block, w_exc_value, w_pending, w_before, w_db, w_open, w_commits,
                   w_rollbacks, w_failed>>

UowIdle ==
    /\ w_pc = "idle"
    /\ w_block = None
    /\ w_exc_value = None
    /\ w_pending = 0
    /\ w_before = 0
    /\ w_db = 0
    /\ w_open = FALSE
    /\ w_commits = 0
    /\ w_rollbacks = 0
    /\ w_failed = FALSE
    /\ w_caller = None

(***************************************************************************)
(* The specifications.                                                     *)
(***************************************************************************)
vars == <<awsVars, gVars, fVars, nVars, dbVars, cVars, pVars, dVars, hVars, uVars, vVars, qVars, lVars, wVars>>

\* one call of check_proxy_with_aws
OthersAws == <<gVars, fVars, nVars, dbVars, cVars, pVars, dVars, hVars, uVars, vVars, qVars,
    lVars, wVars>>

NextAws ==
    \/ AwsFirstRequest /\ UNCHANGED OthersAws
    \/ AwsSleep /\ UNCHANGED OthersAws
    \/ AwsSecondRequest /\ UNCHANGED OthersAws

\* the start of SpecAws: AwsInit, and every other part at rest
InitAws ==
    AwsInit /\ GatherIdle /\ FetchIdle /\ CountIdle /\ DbIdle /\ CheckIdle /\ ParseIdle /\
        DownloadIdle /\ HttpIdle /\ FormatIdle /\ ValidateIdle /\ QueryIdle /\ LockIdle /\
        UowIdle

SpecAws == InitAws /\ [][NextAws]_vars

\* one call of cgather
OthersGather == <<awsVars, fVars, nVars, dbVars, cVars, pVars, dVars, hVars, uVars, vVars,
    qVars, lVars, wVars>>

NextGather ==
    \/ \E t \in GTasks : sem_task_enter(t) /\ UNCHANGED OthersGather
    \/ \E t \in GTasks : task_suspend(t) /\ UNCHANGED OthersGather
    \/ \E t \in GTasks : task_resume(t) /\ UNCHANGED OthersGather
    \/ \E t \in GTasks : sem_task_exit(t) /\ UNCHANGED OthersGather
    \/ cgather_return /\ UNCHANGED OthersGather

\* the start of SpecGather: GatherInit, and every other part at rest
InitGather ==
    GatherInit /\ AwsIdle /\ FetchIdle /\ CountIdle /\ DbIdle /\ CheckIdle /\ ParseIdle /\
        DownloadIdle /\ HttpIdle /\ FormatIdle /\ ValidateIdle /\ QueryIdle /\ LockIdle /\
        UowIdle

SpecGather == InitGather /\ [][NextGather]_vars

\* one pass of fetch_proxies
OthersFetch == <<awsVars, gVars, nVars, dbVars, cVars, pVars, dVars, hVars, uVars, vVars,
    qVars, lVars, wVars>>

NextFetch ==
    \/ load_sources /\ UNCHANGED OthersFetch
    \/ \E s \in FSources : download_start(s) /\ UNCHANGED OthersFetch
    \/ \E s \in FSources : download_finish(s) /\ UNCHANGED OthersFetch
    \/ fetch_all_proxy_lists_return /\ UNCHANGED OthersFetch
    \/ \E j \in 1..Len(f_pool) : check_start(j) /\ UNCHANGED OthersFetch
    \/ \E j \in 1..Len(f_pool) : check_finish(j) /\ UNCHANGED OthersFetch
    \/ check_list_of_proxies_return /\ UNCHANGED OthersFetch
    \/ create_bulk_return /\ UNCHANGED OthersFetch

\* the start of SpecFetch: FetchInit, and every other part at rest
InitFetch ==
    FetchInit /\ AwsIdle /\ GatherIdle /\ CountIdle /\ DbIdle /\ CheckIdle /\ ParseIdle /\
        DownloadIdle /\ HttpIdle /\ FormatIdle /\ ValidateIdle /\ QueryIdle /\ LockIdle /\
        UowIdle

SpecFetch == InitFetch /\ [][NextFetch]_vars

\* the checks of one pass of fetch_proxies, counted
OthersCount == <<awsVars, gVars, fVars, dbVars, cVars, pVars, dVars, hVars, uVars, vVars,
    qVars, lVars, wVars>>

NextCount ==
    \/ count_check_start /\ UNCHANGED OthersCount
    \/ count_check_finish /\ UNCHANGED OthersCount
    \/ count_chunk_done /\ UNCHANGED OthersCount

\* the start of SpecCount: CountInit, and every other part at rest
InitCount ==
    CountInit /\ AwsIdle /\ GatherIdle /\ FetchIdle /\ DbIdle /\ CheckIdle /\ ParseIdle /\
        DownloadIdle /\ HttpIdle /\ FormatIdle /\ ValidateIdle /\ QueryIdle /\ LockIdle /\
        UowIdle

SpecCount == InitCount /\ [][NextCount]_vars

\* add_bulk calls on the tables
OthersDb == <<awsVars, gVars, fVars, nVars, cVars, pVars, dVars, hVars, uVars, vVars, qVars,
    lVars, wVars>>

NextDb == add_bulk /\ UNCHANGED OthersDb

\* the start of SpecDb: DbInit, and every other part at rest
InitDb ==
    DbInit /\ AwsIdle /\ GatherIdle /\ FetchIdle /\ CountIdle /\ CheckIdle /\ ParseIdle /\
        DownloadIdle /\ HttpIdle /\ FormatIdle /\ ValidateIdle /\ QueryIdle /\ LockIdle /\
        UowIdle

SpecDb == InitDb /\ [][NextDb]_vars

\* runs of check_proxies
OthersCheck == <<awsVars, gVars, fVars, nVars, dbVars, pVars, dVars, hVars, uVars, vVars,
    qVars, lVars, wVars>>

NextCheck ==
    \/ check_proxies_load /\ UNCHANGED OthersCheck
    \/ \E p \in CProxies : check_single_proxy_start(p) /\ UNCHANGED OthersCheck
    \/ \E p \in CProxies : check_single_proxy_return(p) /\ UNCHANGED OthersCheck
    \/ \E p \in CProxies : check_single_proxy_raise(p) /\ UNCHANGED OthersCheck
    \/ check_proxies_gathered /\ UNCHANGED OthersCheck
    \/ check_proxies_update /\ UNCHANGED OthersCheck
    \/ check_proxies_return /\ UNCHANGED OthersCheck

\* the start of SpecCheck: CheckInit, and every other part at rest
InitCheck ==
    CheckInit /\ AwsIdle /\ GatherIdle /\ FetchIdle /\ CountIdle /\ DbIdle /\ ParseIdle /\
        DownloadIdle /\ HttpIdle /\ FormatIdle /\ ValidateIdle /\ QueryIdle /\ LockIdle /\
        UowIdle

SpecCheck == InitCheck /\ [][NextCheck]_vars

\* one call of try_parse_ip_port
OthersParse == <<awsVars, gVars, fVars, nVars, dbVars, cVars, dVars, hVars, uVars, vVars,
    qVars, lVars, wVars>>

NextParse == try_parse_ip_port_call /\ UNCHANGED OthersParse

\* the start of SpecParse: ParseInit, and every other part at rest
InitParse ==
    ParseInit /\ AwsIdle /\ GatherIdle /\ FetchIdle /\ CountIdle /\ DbIdle /\ CheckIdle /\
        DownloadIdle /\ HttpIdle /\ FormatIdle /\ ValidateIdle /\ QueryIdle /\ LockIdle /\
        UowIdle

SpecParse == InitParse /\ [][NextParse]_vars

\* one call of download_proxy_list
OthersDownload == <<awsVars, gVars, fVars, nVars, dbVars, cVars, pVars, hVars, uVars, vVars,
    qVars, lVars, wVars>>

NextDownload == download_proxy_list_call /\ UNCHANGED OthersDownload

\* the start of SpecDownload: DownloadInit, and every other part at rest
InitDownload ==
    DownloadInit /\ AwsIdle /\ GatherIdle /\ FetchIdle /\ CountIdle /\ DbIdle /\ CheckIdle /\
        ParseIdle /\ HttpIdle /\ FormatIdle /\ ValidateIdle /\ QueryIdle /\ LockIdle /\ UowIdle

SpecDownload == InitDownload /\ [][NextDownload]_vars

\* one call of try_http_request_with_proxy
OthersHttp == <<awsVars, gVars, fVars, nVars, dbVars, cVars, pVars, dVars, uVars, vVars, qVars,
    lVars, wVars>>

NextHttp ==
    \/ session_get /\ UNCHANGED OthersHttp
    \/ resp_text /\ UNCHANGED OthersHttp
    \/ return_result /\ UNCHANGED OthersHttp
    \/ return_none /\ UNCHANGED OthersHttp

\* the start of SpecHttp: HttpInit, and every other part at rest
InitHttp ==
    HttpInit /\ AwsIdle /\ GatherIdle /\ FetchIdle /\ CountIdle /\ DbIdle /\ CheckIdle /\
        ParseIdle /\ DownloadIdle /\ FormatIdle /\ ValidateIdle /\ QueryIdle /\ LockIdle /\
        UowIdle

SpecHttp == InitHttp /\ [][NextHttp]_vars

\* one call of format_proxy_url
OthersFormat == <<awsVars, gVars, fVars, nVars, dbVars, cVars, pVars, dVars, hVars, vVars,
    qVars, lVars, wVars>>

NextFormat == format_proxy_url_call /\ UNCHANGED OthersFormat

\* the start of SpecFormat: FormatInit, and every other part at rest
InitFormat ==
    FormatInit /\ AwsIdle /\ GatherIdle /\ FetchIdle /\ CountIdle /\ DbIdle /\ CheckIdle /\
        ParseIdle /\ DownloadIdle /\ HttpIdle /\ ValidateIdle /\ QueryIdle /\ LockIdle /\
        UowIdle

SpecFormat == InitFormat /\ [][NextFormat]_vars

\* one call of validate_aws_response
OthersValidate == <<awsVars, gVars, fVars, nVars, dbVars, cVars, pVars, dVars, hVars, uVars,
    qVars, lVars, wVars>>

NextValidate == validate_aws_response_call /\ UNCHANGED OthersValidate

\* the start of SpecValidate: ValidateInit, and every other part at rest
InitValidate ==
    ValidateInit /\ AwsIdle /\ GatherIdle /\ FetchIdle /\ CountIdle /\ DbIdle /\ CheckIdle /\
        ParseIdle /\ DownloadIdle /\ HttpIdle /\ FormatIdle /\ QueryIdle /\ LockIdle /\ UowIdle

SpecValidate == InitValidate /\ [][NextValidate]_vars

\* one call of get_proxies, at the service or at the repository
OthersQuery == <<awsVars, gVars, fVars, nVars, dbVars, cVars, pVars, dVars, hVars, uVars,
    vVars, lVars, wVars>>

NextQuery ==
    \/ service_get_proxies /\ UNCHANGED OthersQuery
    \/ uow_enter /\ UNCHANGED OthersQuery
    \/ repository_get_proxies /\ UNCHANGED OthersQuery
    \/ uow_exit /\ UNCHANGED OthersQuery

\* the start of SpecQuery: QueryInit, and every other part at rest
InitQuery ==
    QueryInit /\ AwsIdle /\ GatherIdle /\ FetchIdle /\ CountIdle /\ DbIdle /\ CheckIdle /\
        ParseIdle /\ DownloadIdle /\ HttpIdle /\ FormatIdle /\ ValidateIdle /\ LockIdle /\
        UowIdle

SpecQuery == InitQuery /\ [][NextQuery]_vars

\* concurrent invocations of async_task_runner for one task function
OthersLock == <<awsVars, gVars, fVars, nVars, dbVars, cVars, pVars, dVars, hVars, uVars, vVars,
    qVars, wVars>>

NextLock ==
    \/ \E r \in Runners : runner_set(r) /\ UNCHANGED OthersLock
    \/ \E r \in Runners : runner_func_finish(r) /\ UNCHANGED OthersLock
    \/ \E r \in Runners : runner_get(r) /\ UNCHANGED OthersLock
    \/ \E r \in Runners : runner_delete(r) /\ UNCHANGED OthersLock
    \/ lock_tick /\ UNCHANGED OthersLock

\* the start of SpecLock: LockInit, and every other part at rest
InitLock ==
    LockInit /\ AwsIdle /\ GatherIdle /\ FetchIdle /\ CountIdle /\ DbIdle /\ CheckIdle /\
        ParseIdle /\ DownloadIdle /\ HttpIdle /\ FormatIdle /\ ValidateIdle /\ QueryIdle /\
        UowIdle

SpecLock == InitLock /\ [][NextLock]_vars

\* one `async with SQLUnitOfWork` block and its __aexit__
OthersUow == <<awsVars, gVars, fVars, nVars, dbVars, cVars, pVars, dVars, hVars, uVars, vVars,
    qVars, lVars>>

NextUow ==
    \/ block_write /\ UNCHANGED OthersUow
    \/ block_end /\ UNCHANGED OthersUow
    \/ uow_commit /\ UNCHANGED OthersUow
    \/ uow_rollback /\ UNCHANGED OthersUow
    \/ session_close /\ UNCHANGED OthersUow
    \/ aexit_return /\ UNCHANGED OthersUow

\* the start of SpecUow: UowInit, and every other part at rest
InitUow ==
    UowInit /\ AwsIdle /\ GatherIdle /\ FetchIdle /\ CountIdle /\ DbIdle /\ CheckIdle /\
        ParseIdle /\ DownloadIdle /\ HttpIdle /\ FormatIdle /\ ValidateIdle /\ QueryIdle /\
        LockIdle

SpecUow == InitUow /\ [][NextUow]_vars

\* one call of cgather with terminating tasks on a running event loop: a task
\* that can take a permit does (asyncio.Semaphore wakes its waiters), a
\* suspended task is resumed, a started task comes to its end although it may
\* be suspended any number of times, and asyncio.gather returns when all have
FairnessGather ==
    /\ \A t \in 1 .. MaxTasks :
          /\ WF_vars(t \in GTasks /\ sem_task_enter(t) /\ UNCHANGED OthersGather)
          /\ WF_vars(t \in GTasks /\ task_resume(t) /\ UNCHANGED OthersGather)
          /\ SF_vars(t \in GTasks /\ sem_task_exit(t) /\ UNCHANGED OthersGather)
    /\ WF_vars(cgather_return /\ UNCHANGED OthersGather)

FairSpecGather == SpecGather /\ FairnessGather

(***************************************************************************)
(* The claims.                                                             *)
(***************************************************************************)
\* an echo attempt passes the validation: a response came back, with status
\* 200 and a body that is the candidate's address once CR/LF are stripped
AttemptPasses(response) ==
    /\ response # None
    /\ response[1].status = 200
    /\ Strip(response[1].text) = <<aws_address>>

\* C1: check_proxy_with_aws returns (True, latency of the second attempt) if
\* and only if the first and the second attempt both pass the echo validation,
\* and (False, 0) in every other case.
C1_BothAttemptsMustPass ==
    aws_pc = "done" =>
        aws_result =
            IF AttemptPasses(aws_first) /\ AttemptPasses(aws_second)
            THEN Some(<<TRUE, aws_second[1].time>>)
            ELSE Some(<<FALSE, 0>>)

\* both attempts passed, with different response times
C1_Witness ==
    /\ aws_pc = "done"
    /\ AttemptPasses(aws_first) /\ AttemptPasses(aws_second)
    /\ aws_first[1].time # aws_second[1].time
    /\ aws_result[1][1]

\* C2: a failed first attempt short-circuits: one request, no sleep, no second
\* request; the second request is sent only after a first attempt that passed
\* and after the stability delay.
C2_ShortCircuit ==
    /\ aws_log \in {<<>>, <<"request">>, <<"request", "sleep">>,
                    <<"request", "sleep", "request">>}
    /\ aws_requests = Len(SelectSeq(aws_log, LAMBDA e : e = "request"))
    /\ aws_sleeps = Len(SelectSeq(aws_log, LAMBDA e : e = "sleep"))
    /\ (aws_requests >= 1 /\ ~AttemptPasses(aws_first)) =>
          /\ aws_pc = "done"
          /\ aws_requests = 1
          /\ aws_sleeps = 0
          /\ aws_second = None
    /\ Len(aws_log) >= 2 => AttemptPasses(aws_first)

\* the first attempt got a response that fails the validation, and the call
\* is over
C2_Witness ==
    /\ aws_pc = "done"
    /\ aws_first # None
    /\ ~AttemptPasses(aws_first)
    /\ aws_requests = 1

\* C3: at every instant of one cgather call at most limit tasks have started
\* and not yet finished.
C3_AtMostLimitRunning == Cardinality(GRunning) <= g_limit

\* more tasks than permits, and every permit is in use
C3_Witness ==
    /\ g_n > g_limit
    /\ Cardinality(GRunning) = g_limit
    /\ \E t \in GTasks : g_state[t] = "waiting"
    /\ \E t \in GTasks : g_state[t] = "finished"

\* the number of places of a list that hold a given value
Count(list, x) == Len(SelectSeq(list, LAMBDA e : e = x))

\* C4: the returned list holds the result of every task that ended with a
\* value other than None exactly once, and nothing else: no None, no exception.
C4_ReturnsExactlyTheValues ==
    g_pc = "returned" =>
        /\ \A i \in 1..Len(g_return[1]) : g_return[1][i].kind = "value"
        /\ \A v \in TaskValues :
              Count(g_return[1], [kind |-> "value", val |-> v])
                  = Cardinality({t \in GTasks :
                        g_outcome[t] = Some([kind |-> "value", val |-> v])})

\* a call whose tasks returned values (two of them the same), None, and raised
C4_Witness ==
    /\ g_pc = "returned"
    /\ \E t \in GTasks : g_outcome[t][1].kind = "none"
    /\ \E t \in GTasks : g_outcome[t][1].kind = "raise"
    /\ \E t, u \in GTasks : t # u /\ g_outcome[t][1].kind = "value" /\ g_outcome[t] = g_outcome[u]
    /\ Len(g_return[1]) = 2

\* the download of a source failed or returned nothing
DownloadFailed(s) ==
    \/ f_dl[s] # "done"
    \/ f_dlres[s][1].kind \in {"none", "raise"}
    \/ f_dlres[s][1].list = <<>>

\* C5: in one fetch cycle every source has its total connection attempts
\* incremented by 1, its failed connection attempts incremented by 1 exactly
\* when its download failed or returned nothing, its last_used set, and its
\* health persisted exactly once.
C5_SourceHealthUpdatedOncePerSource ==
    f_pc \in {"check", "insert", "done"} =>
        \A s \in FSources :
            /\ f_shealth[s].total_conn_attemps = 1
            /\ f_shealth[s].failed_conn_attemps = (IF DownloadFailed(s) THEN 1 ELSE 0)
            /\ f_shealth[s].last_used # None
            /\ f_supdates[s] = 1

\* C6: at most one source download is in flight at any instant.
C6_OneDownloadAtATime == Cardinality({s \in FSources : f_dl[s] = "inflight"}) <= 1

\* C7: the chunks are processed one after the other: a check of a chunk starts
\* only when every earlier chunk is over (its bulk insert has returned, or it
\* had no checked candidate and nothing to insert), and checks of two chunks
\* are never in flight together.
C7_ChunksSequential ==
    /\ \A j \in 1..Len(f_pool) :
          f_chk[j] # "idle" =>
              \A k \in 1..ChunkOf(j) : f_insert[k] \in {"done", "skipped"}
    /\ \A j1, j2 \in 1..Len(f_pool) :
          (f_chk[j1] = "inflight" /\ f_chk[j2] = "inflight") => ChunkOf(j1) = ChunkOf(j2)
    /\ \A k \in 1..Len(f_insert) :
          f_insert[k] = "skipped" =>
              \A j \in 1..Len(f_pool) : ChunkOf(j) + 1 = k => f_chk[j] \in {"failed", "raised"}
    /\ \A k \in 1..Len(f_insert) :
          f_insert[k] = "running" => \A j \in 1..Len(f_pool) : f_chk[j] # "inflight"

\* a check of the second chunk is in flight after the first chunk was inserted
C7_Witness ==
    /\ Len(f_pool) > ChunkSize
    /\ f_insert[1] = "done"
    /\ \E j \in 1..Len(f_pool) : ChunkOf(j) = 1 /\ f_chk[j] = "inflight"

\* C8: the number of liveness checks in flight never exceeds the gather limit
\* of 50.
C8_ChecksInFlightWithinLimit == ChecksInFlight <= cgather_limit

\* C9: a proxy whose (address, port, protocol) is stored is ignored by a bulk
\* insert: after any sequence of bulk inserts there is exactly one stored
\* record for every key offered, and it is the record offered first.
C9_OneRecordPerKey ==
    /\ \A r1, r2 \in db_proxies : r1.key = r2.key => r1 = r2
    /\ \A k \in ProxyKeys :
          db_first[k] # None => {r \in db_proxies : r.key = k} = {db_first[k][1]}
    /\ \A r \in db_proxies : db_first[r.key] # None

\* two calls were made and a record was ignored for a key stored with another
\* latency
C9_Witness ==
    /\ db_calls = 2
    /\ db_ignored > 0
    /\ Cardinality(db_proxies) >= 2
    /\ db_nextid > Cardinality(db_proxies) + 1

\* C10: one check outcome updates the health so: total attempts + 1 in both
\* cases; on success the latency is the measured one, last_tested is the
\* current time and failed attempts is unchanged; on failure failed attempts
\* + 1 and latency and last_tested are unchanged.
C10_CheckSingleProxyUpdate ==
    [][\A p \in CProxies :
          (c_task[p] = "running" /\ c_task'[p] = "ok") =>
              LET before == c_obj[p]
                  after == c_obj'[p]
                  result == c_outcome'[p][1]
              IN  /\ after.total_conn_attemps = before.total_conn_attemps + 1
                  /\ IF result[1]
                     THEN /\ after.latency = result[2]
                          /\ after.last_tested = Some(c_now')
                          /\ after.failed_conn_attemps = before.failed_conn_attemps
                     ELSE /\ after.failed_conn_attemps = before.failed_conn_attemps + 1
                          /\ after.latency = before.latency
                          /\ after.last_tested = before.last_tested]_vars

\* one proxy was checked with success and another, tested before, with failure
C10_Witness ==
    \E p, q \in CProxies :
        /\ c_task[p] = "ok" /\ c_outcome[p][1][1]
        /\ c_task[q] = "ok" /\ ~c_outcome[q][1][1]
        /\ c_obj[q].last_tested # None
        /\ c_obj[q].latency > 0
        /\ c_obj[q].failed_conn_attemps >= 1

\* C11: for a proxy that started from zero counters, after any number of
\* runs in which n of its checks returned a result and f of them failed, its
\* stored total attempts is n, its failed attempts is f (so never more than
\* the total), and its last_tested is the time of its most recent successful
\* check, null while none succeeded; and no step lowers a stored counter.
C11_HealthAccumulation ==
    /\ [](c_pc = "start" =>
            \A p \in CProxies :
                c_hist[p].zero =>
                    /\ c_stored[p].total_conn_attemps = c_hist[p].n
                    /\ c_stored[p].failed_conn_attemps = c_hist[p].f
                    /\ c_stored[p].failed_conn_attemps <= c_stored[p].total_conn_attemps
                    /\ c_stored[p].last_tested = c_hist[p].last_success)
    /\ [][\A p \in CProxies :
            /\ c_stored'[p].total_conn_attemps >= c_stored[p].total_conn_attemps
            /\ c_stored'[p].failed_conn_attemps >= c_stored[p].failed_conn_attemps]_vars

\* after two runs a proxy that started from zero has one success and then one
\* failure: its last attempt is later than its last success
C11_Witness ==
    /\ c_pc = "start"
    /\ c_runs = 2
    /\ \E p \in CProxies :
          /\ c_hist[p].zero
          /\ c_hist[p].n = 2
          /\ c_hist[p].f = 1
          /\ c_outcome[p] = Some(<<FALSE, 0>>)
          /\ c_stored[p].last_tested # None

\* C12: in a run of check_proxies no step changes the stored health of a proxy
\* whose check raised, and when the run returns every proxy whose check
\* returned a result has been written with its updated health: the exception
\* neither touches its own proxy nor keeps the others from being updated.
C12_RaisedCheckLeftUntouched ==
    /\ [][\A p \in CProxies : c_task[p] = "raised" => c_stored'[p] = c_stored[p]]_vars
    /\ []((c_pc = "start" /\ c_runs > 0) =>
            \A p \in CProxies :
                c_task[p] = "ok" =>
                    /\ c_stored[p] = c_obj[p]
                    /\ c_stored[p].total_conn_attemps = c_hist[p].n + (IF c_hist[p].zero THEN 0 ELSE 1))

\* a run has returned in which the check of one proxy raised and the check of
\* the other, coming after it in the order of the run, was written
C12_Witness ==
    /\ c_pc = "start"
    /\ c_runs > 0
    /\ c_task[c_order[1]] = "raised"
    /\ c_task[c_order[2]] = "ok"
    /\ c_stored[c_order[2]].total_conn_attemps = c_hist[c_order[2]].n + (IF c_hist[c_order[2]].zero THEN 0 ELSE 1)
    /\ c_hist[c_order[2]].n > 0

\* the cap of one run of the health checker that the design states (300),
\* scaled to the stored proxies of the model
RunCap == 1

\* C13: one run re-checks at most RunCap stored proxies, and no proxy it
\* selected has a more recent last_tested than a proxy it left out (never
\* checked first, then the oldest last_tested).
C13_RunIsCapped ==
    c_pc = "gather" =>
        LET selected == {c_order[n] : n \in 1..Len(c_order)}
        IN  /\ Cardinality(selected) <= RunCap
            /\ \A p \in selected, q \in CProxies \ selected :
                  NullsFirstLeq(c_stored[p].last_tested, c_stored[q].last_tested)

C15_DownloadedCandidatesAreGlobal ==
    (d_pc = "done" /\ d_result[1].kind = "return" /\ d_result[1].value # None) =>
        LET proxies == d_result[1].value[1]
        IN  /\ \A n \in 1..Len(proxies) : is_global(proxies[n][1])
            /\ d_request.data =
                    << << <<"127.0.0.1">>, <<"8080">> >>, << <<"8.8.8.8">>, <<"8080">> >>,
                       << <<"invalid">> >>, << <<"1.2.3.4">>, <<"0">> >>,
                       << <<"1.2.3.4">>, <<"65536">> >> >>
                  => proxies = << <<"8.8.8.8", 8080>> >>

\* C16: download_proxy_list returns None and raises nothing when the status
\* is not 200, when the body is empty, and when the request fails with a
\* request-level error (aiohttp's ClientError).
C16_DownloadFailureGivesNone ==
    (/\ d_pc = "done"
     /\ \/ d_request.kind = "raise" /\ d_request.exc = "ClientError"
        \/ d_request.kind = "response" /\ d_request.status # HTTP_STATUS_OK
        \/ d_request.kind = "response" /\ d_request.data = <<>>)
        => d_result[1] = [kind |-> "return", value |-> None]

C18_FormatProxyUrl ==
    u_pc = "done" =>
        LET url == u_url[1]
            a == u_args
            scheme == CASE a.protocol \in {"HTTP", "HTTPS"} -> "http"
                        [] a.protocol = "SOCKS4" -> "socks4"
                        [] a.protocol = "SOCKS5" -> "socks5"
            with_credentials ==
                /\ a.protocol = "SOCKS5"
                /\ a.login \notin {None, Some("")}
                /\ a.password \notin {None, Some("")}
            port_text == IF a.port = 8080 THEN "8080" ELSE "1080"
        IN  /\ url[1] = scheme
            /\ url[2] = "://"
            /\ IF with_credentials
               THEN /\ Len(url) = 9
                    /\ SubSeq(url, 3, 6) = <<lower(a.login[1]), ":", lower(a.password[1]), "@">>
               ELSE /\ Len(url) = 5
                    /\ \A n \in 1..Len(url) : url[n] # "@"
            /\ SubSeq(url, Len(url) - 2, Len(url)) = <<a.address, ":", port_text>>
            /\ \A n \in 1..Len(url) : url[n] \notin {"HTTP", "HTTPS", "SOCKS4", "SOCKS5", "User", "Pass"}
            /\ (a.address = "127.0.0.1" /\ a.port = 8080 /\ a.protocol = "HTTPS")
                  => url = <<"http", "://", "127.0.0.1", ":", "8080">>
            /\ (/\ a.address = "127.0.0.1" /\ a.port = 8080 /\ a.protocol = "SOCKS5"
                /\ a.login = Some("u") /\ a.password = Some("p"))
                  => url = <<"socks5", "://", "u", ":", "p", "@", "127.0.0.1", ":", "8080">>

\* a SOCKS5 URL with mixed-case credentials was formatted
C18_Witness ==
    /\ u_pc = "done"
    /\ u_args.protocol = "SOCKS5"
    /\ u_args.login = Some("User")
    /\ u_args.password = Some("Pass")
    /\ u_url = Some(<<"socks5", "://", "user", ":", "pass", "@", u_args.address, ":", str(u_args.port)>>)

\* the text is an IP literal and that of the address
IsLiteralOf(text, address) == Len(text) = 1 /\ text[1] \in IPLiterals /\ text[1] = address

\* C19 as stated: validate_aws_response returns true exactly when the status
\* is 200 and the body with its trailing CR/LF characters stripped is an IP
\* literal equal to the advertised address.
C19_ValidateStripsTrailing ==
    v_pc = "done" =>
        (v_valid[1] <=>
            (v_response.status = 200 /\ IsLiteralOf(RStrip(v_response.text), v_address)))

\* C19, amended: validate_aws_response returns true exactly when the status
\* is 200 and the body with its leading and trailing CR/LF characters
\* stripped is an IP literal equal to the advertised address; a status other
\* than 200 gives false whatever the body, and so does a body that is no IP
\* literal or another address.
C19_ValidateStripsBothEnds ==
    v_pc = "done" =>
        /\ v_valid[1] <=>
              (v_response.status = 200 /\ IsLiteralOf(Strip(v_response.text), v_address))
        /\ v_response.status # 200 => ~v_valid[1]

\* a body that begins with a line feed before the advertised address was
\* found valid
C19_Witness ==
    /\ v_pc = "done"
    /\ v_response.status = 200
    /\ v_response.text = <<"\n", "1.2.3.4">>
    /\ v_address = "1.2.3.4"
    /\ v_valid = Some(TRUE)

\* C20: get_proxies called with only_checked and sort_by_unchecked both set
\* raises ValueError in its first step, at the service and at the repository
\* level: the call executes no statement, the service opens no unit of work,
\* and the call ends with ValueError.
C20_BothFlagsRaiseAtOnce ==
    (q_pc # "idle" /\ q_args.only_checked /\ q_args.sort_by_unchecked) =>
        /\ q_queries = 0
        /\ q_sessions = 0
        /\ q_pc \in {q_level, "done"}
        /\ q_pc = "done" => q_result = Some([kind |-> "raise", value |-> "ValueError"])

\* a service call with both flags and an unknown country code has ended with
\* ValueError
C20_Witness ==
    /\ q_pc = "done"
    /\ q_level = "service"
    /\ q_args.only_checked /\ q_args.sort_by_unchecked
    /\ q_args.country_alpha2_code = Some("ZZ")
    /\ q_result = Some([kind |-> "raise", value |-> "ValueError"])

\* C21: when the key lock:<task name> exists, an invocation of
\* async_task_runner that has a task id returns in its first step without
\* calling the task function, and leaves the key, its value and its expiry as
\* they were; an invocation that was skipped has never called the function.
C21_HeldLockSkipsTask ==
    /\ [](\A r \in Runners :
             l_outcome[r] = "skipped" => l_calls[r] = 0 /\ l_pc[r] = "done")
    /\ [][\A r \in Runners :
             (l_pc[r] = "start" /\ l_id[r] # None /\ l_lock # None /\ l_pc'[r] # "start") =>
                 /\ l_pc'[r] = "done"
                 /\ l_outcome'[r] = "skipped"
                 /\ l_calls'[r] = 0
                 /\ l_lock' = l_lock
                 /\ l_ttl' = l_ttl]_vars

\* an invocation was skipped while another invocation's id is in the key
C21_Witness ==
    \E r \in Runners :
        /\ l_outcome[r] = "skipped"
        /\ l_lock # None
        /\ l_lock # l_id[r]

\* C22: at no instant are two invocations of async_task_runner both
\* executing the task function, whatever the number of concurrent invocations
\* and however long the function runs.
C22_OneInstanceAtATime ==
    Cardinality({r \in Runners : l_pc[r] = "func"}) <= 1

\* C28: an invocation deletes the key only while the key holds its own task
\* id: no DEL of an invocation removes a key that holds another task id.
C28_DeletesOnlyOwnLock ==
    [][\A r \in Runners :
          (l_pc[r] = "delete" /\ l_pc'[r] = "done") => l_lock \in {None, l_id[r]}]_vars

DownloadedList(s) ==
    IF f_dl[s] = "done" /\ f_dlres[s][1].kind = "list" THEN f_dlres[s][1].list ELSE <<>>

\* C24: when fetch_all_proxy_lists has returned, the combined pool is made of
\* the lists of the sources whose download gave one, each whole, in the order
\* of the sources and nothing else, whatever the downloads of the other
\* sources ended with.
C24_FailingSourceDoesNotAbort ==
    (f_pc \in {"check", "insert", "done"} /\ f_nsrc > 0) =>
        \E off \in [FSources -> 0 .. MaxPool] :
            /\ \A s \in FSources :
                  /\ off[s] + Len(DownloadedList(s)) <= Len(f_pool)
                  /\ \A n \in 1 .. Len(DownloadedList(s)) :
                        f_pool[off[s] + n] = DownloadedList(s)[n]
            /\ \A s, t \in FSources : s < t => off[s] + Len(DownloadedList(s)) <= off[t]
            /\ \A j \in 1 .. Len(f_pool) :
                  \E s \in FSources : off[s] < j /\ j <= off[s] + Len(DownloadedList(s))

\* the download of the first source raised, that of the second gave two
\* candidates, and both are in the pool
C24_Witness ==
    /\ f_pc = "check"
    /\ f_nsrc = 2
    /\ f_dl[1] = "done" /\ f_dlres[1][1].kind = "raise"
    /\ f_dl[2] = "done" /\ f_dlres[2][1].kind = "list"
    /\ Len(f_dlres[2][1].list) = 2
    /\ f_pool = f_dlres[2][1].list

\* C25: every record handed to create_bulk has the address of a candidate of
\* the pool whose check passed in this pass, and carries the location the
\* address resolves to, which is not null; an address has no more records in a
\* batch than candidates that passed.
C25_OnlyCheckedAndLocatedPersisted ==
    \A b \in 1 .. Len(f_batches) :
        /\ \A n \in 1 .. Len(f_batches[b]) :
              LET rec == f_batches[b][n] IN
              /\ \E j \in 1 .. Len(f_pool) : f_pool[j] = rec.address /\ f_chk[j] = "passed"
              /\ get_geolocation(rec.address) = Some(rec.location)
        /\ \A a \in FetchAddrs :
              Cardinality({n \in 1 .. Len(f_batches[b]) : f_batches[b][n].address = a})
                  <= Cardinality({j \in 1 .. Len(f_pool) : f_pool[j] = a /\ f_chk[j] = "passed"})

\* a chunk's batch was handed over with one record, while a candidate with a
\* location failed its check and a candidate without a location passed
C25_Witness ==
    /\ Len(f_batches) = 1
    /\ Len(f_batches[1]) = 1
    /\ \E j \in 1 .. Len(f_pool) : f_pool[j] = "8.8.8.8" /\ f_chk[j] \in {"failed", "raised"}
    /\ \E j \in 1 .. Len(f_pool) : f_pool[j] = "1.2.3.4" /\ f_chk[j] = "passed"

\* C26: whenever try_http_request_with_proxy has returned, with a result or
\* with None, it has paused exactly once before, for 250 ms when its protocol
\* is HTTPS and for 0 ms (a yield) with every other protocol; before the
\* return it has not paused for any other length.
C26_PauseBeforeEveryReturn ==
    /\ (h_pc = "done" /\ h_result # None /\ h_result[1].kind = "return") =>
           h_pauses = << IF h_protocol = "HTTPS" THEN 250 ELSE 0 >>
    /\ h_pc \notin {"done", "idle"} => h_pauses = <<>>

\* an HTTPS check whose request failed returned None after a 250 ms pause
C26_Witness ==
    /\ h_pc = "done"
    /\ h_protocol = "HTTPS"
    /\ h_raised # None
    /\ h_result = Some([kind |-> "return", value |-> None])
    /\ h_pauses = <<250>>

\* C27: between the load of a run of check_proxies and its end the run
\* writes to the storage at most once and reads from it not at all.
C27_SingleBatchWrite ==
    /\ Count(c_ops, "write") <= 1
    /\ Count(c_ops, "read") = 0

\* C29: after any sequence of add_bulk calls every stored proxy has exactly
\* one health row, which carries the initial health the proxy was offered
\* with, every health row belongs to a stored proxy, and no call removes or
\* replaces a health row that was stored before it.
C29_OneHealthPerProxy ==
    /\ [](/\ \A r \in db_proxies : Cardinality({h \in db_health : h.proxy_id = r.id}) = 1
          /\ \A h \in db_health :
                \E r \in db_proxies : r.id = h.proxy_id /\ r.latency = h.latency
          /\ Cardinality(db_health) = Cardinality(db_proxies))
    /\ [][db_health \subseteq db_health']_vars

\* of the three records offered in two calls two were ignored as duplicates
\* of the one stored proxy, and there is still one health row
C29_Witness ==
    /\ db_calls = 2
    /\ db_nextid = 4
    /\ db_ignored = 2
    /\ Cardinality(db_proxies) = 1
    /\ Cardinality(db_health) = 1

\* C30: with terminating tasks and a limit of at least 1, cgather eventually
\* returns, and by then every task handed to it has been started and has
\* come to its end, whether it returned a value, returned None or raised, and
\* every permit is back in the semaphore.
C30_CgatherReturns ==
    <>(/\ g_pc = "returned"
       /\ \A t \in GTasks : g_state[t] = "finished" /\ g_outcome[t] # None
       /\ g_semaphore = g_limit)

\* cgather returned after more tasks than permits, the first of which raised
C30_Witness ==
    /\ g_pc = "returned"
    /\ g_n > g_limit
    /\ g_outcome[1] = Some([kind |-> "raise", val |-> 0])
    /\ \A t \in GTasks : g_state[t] = "finished"

=============================================================================
